---- MODULE Spec2Model ----
(***************************************************************************)
(* Template lifecycle, Change Ledger (template_history) and Global Audit   *)
(* Log of the AVD template portal API.                                     *)
(*                                                                         *)
(* The relational store is the state: the templates table, the            *)
(* template_applications join table, the template_history table, the      *)
(* audit_logs table and the master data (applications, business_units,    *)
(* contacts).  Every route handler of templatesRoutes, and the create and  *)
(* delete handlers of applicationsRoutes, businessUnitsRoutes and          *)
(* contactsRoutes, is one action; its inputs (path id, request body,       *)
(* outcome of the two ledger writes) are drawn from small sets.  The       *)
(* database starts with its seeded master data.  The HTTP response of the  *)
(* handler that ran last is kept in reply.                                 *)
(*                                                                         *)
(* Handlers whose interleaving matters (status change, attach, application *)
(* delete, contact create and update) are also given statement by          *)
(* statement, one action per awaited statement, with the request in flight *)
(* on each client connection kept in calls.  Login, logout, the password   *)
(* change and the authenticate pre-handler work on the sessions table, and *)
(* the status Select of the template detail page is modelled on top of the *)
(* status-change request.                                                  *)
(***************************************************************************)
EXTENDS Integers, Sequences, FiniteSets, TLC

(* ------------------------------- bounds -------------------------------- *)
MaxTemplates == 2      \* template ids ever allocated (cuid, never reused)
MaxClock == 2          \* wall-clock readings 1..MaxClock
MaxRequests == 4       \* requests served
MaxFaultyRequests == 2 \* requests served while ledger writes may fail
NumApps == 2           \* rows of applications
MaxOrder == 1          \* installOrder values 0..MaxOrder
NumBusinessUnits == 1  \* rows of business_units at the start
NumContacts == 1       \* rows of contacts at the start
MaxAttachRequests == 3 \* requests served while applications are attached and reordered
MaxJourney == 5        \* requests served on a template's journey through its statuses
MaxRaceRequests == 3   \* requests served while status changes interleave

(* ------------------------------ constants ------------------------------ *)
\* enum TemplateStatus
Statuses == {"DRAFT", "IN_REVIEW", "APPROVED", "DEPLOYED", "DEPRECATED"}

\* a request body whose status is not a member of templateStatusEnum
BadStatus == "NOT_A_STATUS"

\* a NULL TIMESTAMP column; clock readings start at 1
NoDate == 0

\* a NULL TemplateStatus column of template_history
NoStatus == "NULL"

\* the authenticated admin supplied by the authenticate pre-handler
Admin == "admin"

\* one id beyond the allocated ones: a path parameter that names no row
PathIds == 1..(MaxTemplates + 1)
AppIds == 1..NumApps
\* one id beyond the applications table
PathAppIds == 1..(NumApps + 1)
Orders == 0..MaxOrder
BusinessUnitIds == 1..NumBusinessUnits
ContactIds == 1..NumContacts

\* a NULL contactId column
NoContact == 0

VARIABLES
    templates,      \* templates table: id -> row, for the ids that exist
    nextId,         \* the next fresh template id
    templateApps,   \* template_applications table: set of rows
    history,        \* template_history table, in insertion order
    audit,          \* audit_logs table, in insertion order
    clock,          \* current wall-clock reading
    reply,          \* response of the handler that ran last
    served,         \* number of requests served so far
    applications,   \* applications table: id -> row
    businessUnits,  \* business_units table: id -> row
    contacts,       \* contacts table: id -> row
    nextIds,        \* the next fresh id of each of these three tables
    calls,          \* per client connection: the request in flight and its position
    sessions,       \* sessions table: the tokens that have a row
    issued,         \* the tokens that login has handed to clients
    passwordHash,   \* admin_users.passwordHash of the admin
    page            \* the template detail page open in the browser

\* the master data that templates refer to
masterData == <<applications, businessUnits, contacts, nextIds>>

\* no template detail page is open
NoPage == [id |-> 0]

\* what login, logout and the password change work on
authData == <<sessions, issued, passwordHash>>

vars == <<templates, nextId, templateApps, history, audit, clock, reply, served,
          masterData, calls, authData, page>>

(* ------------------------- frontend transition table ------------------- *)
statusTransitions ==
    [s \in Statuses |->
        CASE s = "DRAFT"      -> {"IN_REVIEW"}
          [] s = "IN_REVIEW"  -> {"APPROVED", "DRAFT"}
          [] s = "APPROVED"   -> {"DEPLOYED", "IN_REVIEW"}
          [] s = "DEPLOYED"   -> {"DEPRECATED"}
          [] s = "DEPRECATED" -> {}]

(* --------------------------- request validation ------------------------ *)

\* the keys of createTemplateSchema that the model keeps as columns
SchemaKeys == {"regions", "primaryRegion", "businessUnitId", "contactId"}

\* the keys among them that are not optional
RequiredKeys == {"regions", "primaryRegion", "businessUnitId"}

\* the per-key checks of createTemplateSchema on the keys a body carries:
\* regions has at least one element, primaryRegion is a non-empty string,
\* businessUnitId is an id, contactId is an id or null
KeysValid(body) ==
    /\ "regions" \in DOMAIN body => body["regions"] # {}
    /\ "primaryRegion" \in DOMAIN body => body["primaryRegion"] # ""
    /\ "businessUnitId" \in DOMAIN body => body["businessUnitId"] >= 1
    /\ "contactId" \in DOMAIN body => body["contactId"] >= NoContact

\* z.object(...).safeParse: keys the schema does not declare are stripped
StripUnknown(body) == [k \in (DOMAIN body) \cap SchemaKeys |-> body[k]]

\* variant of createTemplateSchema that lets undeclared keys through
createTemplateSchema_Passthrough(body) ==
    [success |-> RequiredKeys \subseteq DOMAIN body /\ KeysValid(body), data |-> body]

\* createTemplateSchema.safeParse: the region keys and businessUnitId are
\* required
createTemplateSchema(body) ==
    IF RequiredKeys \subseteq DOMAIN body /\ KeysValid(body)
    THEN [success |-> TRUE, data |-> StripUnknown(body)]
    ELSE [success |-> FALSE, data |-> StripUnknown(body)]

\* variant of updateTemplateSchema that lets undeclared keys through
updateTemplateSchema_Passthrough(body) ==
    [success |-> KeysValid(body), data |-> body]

\* updateTemplateSchema = createTemplateSchema.partial(): every key optional
updateTemplateSchema(body) ==
    IF KeysValid(body)
    THEN [success |-> TRUE, data |-> StripUnknown(body)]
    ELSE [success |-> FALSE, data |-> StripUnknown(body)]

\* updateTemplateStatusSchema.safeParse: status is a member of the enum
updateTemplateStatusSchema(body) ==
    IF body["status"] \in Statuses
    THEN [success |-> TRUE, data |-> body]
    ELSE [success |-> FALSE, data |-> body]

\* addTemplateApplicationSchema.safeParse: installOrder is an integer >= 0
\* and defaults to 0
addTemplateApplicationSchema(body) ==
    LET data == [applicationId |-> body["applicationId"],
                 installOrder |-> IF "installOrder" \in DOMAIN body
                                  THEN body["installOrder"] ELSE 0]
    IN  [success |-> data.installOrder >= 0, data |-> data]

\* updateTemplateApplicationSchema = the same, partial, without applicationId
updateTemplateApplicationSchema(body) ==
    LET data == [k \in (DOMAIN body) \cap {"installOrder"} |-> body[k]]
    IN  [success |-> ("installOrder" \in DOMAIN data => data["installOrder"] >= 0),
         data |-> data]

\* reorderApplicationsSchema.safeParse: every installOrder is an integer >= 0
reorderApplicationsSchema(body) ==
    [success |-> \A i \in DOMAIN body : body[i].installOrder >= 0, data |-> body]

\* createApplicationSchema.safeParse: name is a non-empty string; names are
\* modelled by positive numbers, the empty string by 0
createApplicationSchema(body) == [success |-> body.name >= 1, data |-> body]

\* createBusinessUnitSchema.safeParse: name is non-empty, code has at least
\* two characters; both modelled by positive numbers, a malformed one by 0
createBusinessUnitSchema(body) ==
    [success |-> body.name >= 1 /\ body.code >= 1, data |-> body]

\* createContactSchema.safeParse: email is an address (a positive number, a
\* malformed one 0), isPrimary defaults to false, businessUnitId is an id
createContactSchema(body) ==
    [success |-> body.email >= 1 /\ body.businessUnitId >= 1,
     data |-> [businessUnitId |-> body.businessUnitId, email |-> body.email,
               isPrimary |-> IF "isPrimary" \in DOMAIN body
                             THEN body.isPrimary ELSE FALSE]]

(* ------------------------------- helpers ------------------------------- *)
\* the columns of a templates row and their defaults on INSERT
ColumnDefaults ==
    [status |-> "DRAFT", approvedDate |-> NoDate,
     deployedDate |-> NoDate, deprecatedDate |-> NoDate,
     regions |-> {}, primaryRegion |-> "",
     businessUnitId |-> 0, contactId |-> NoContact]

\* templates_businessUnitId_fkey and templates_contactId_fkey: the rows a
\* templates row refers to exist
ForeignKeysHold(row) ==
    /\ row.businessUnitId \in DOMAIN businessUnits
    /\ row.contactId = NoContact \/ row.contactId \in DOMAIN contacts

\* prisma create/update: the columns named in data take data's values
ApplyData(row, data) ==
    [c \in DOMAIN row |-> IF c \in DOMAIN data THEN data[c] ELSE row[c]]

\* variant of dateUpdates that stamps deployedDate for DEPRECATED as well
dateUpdates_StampTwo(status) ==
    LET columns == (IF status = "APPROVED" THEN {"approvedDate"} ELSE {})
              \cup (IF status = "DEPLOYED" THEN {"deployedDate"} ELSE {})
              \cup (IF status = "DEPRECATED"
                    THEN {"deployedDate", "deprecatedDate"} ELSE {})
    IN  [c \in columns |-> clock]

\* dateUpdates of PATCH /:id/status: the date column of the target status is
\* stamped with the current time on every request
dateUpdates(status) ==
    LET columns == (IF status = "APPROVED" THEN {"approvedDate"} ELSE {})
              \cup (IF status = "DEPLOYED" THEN {"deployedDate"} ELSE {})
              \cup (IF status = "DEPRECATED" THEN {"deprecatedDate"} ELSE {})
    IN  [c \in columns |-> clock]

\* a NULL JSONB column
NoChanges == [null |-> TRUE]

\* variant of the INSERT of createTemplateHistory that writes newStatus into
\* both status columns
HistoryRow_NewStatusTwice(templateId, action, oldStatus, newStatus, changes) ==
    [templateId |-> templateId, action |-> action, userId |-> Admin,
     oldStatus |-> newStatus, newStatus |-> newStatus, changes |-> changes,
     createdAt |-> clock]

HistoryRow(templateId, action, oldStatus, newStatus, changes) ==
    [templateId |-> templateId, action |-> action, userId |-> Admin,
     oldStatus |-> oldStatus, newStatus |-> newStatus, changes |-> changes,
     createdAt |-> clock]

\* the INSERT of createAuditLog
AuditEntry(action, entityType, entityId) ==
    [adminId |-> Admin, action |-> action,
     entityType |-> entityType, entityId |-> entityId, createdAt |-> clock]

AuditRow(action, entityId) == AuditEntry(action, "Template", entityId)

\* the outcome of a ledger write as its caller sees it: the table afterwards,
\* and whether the call threw
NoWrite(rows) == [rows |-> rows, threw |-> FALSE]

\* variant of createTemplateHistory that inserts the row twice
createTemplateHistory_Twice(h, ok, row) ==
    IF ok THEN [rows |-> Append(Append(h, row), row), threw |-> FALSE]
          ELSE [rows |-> h, threw |-> FALSE]

\* variant of createTemplateHistory without the try/catch: a failed INSERT
\* propagates to the caller
createTemplateHistory_Rethrow(h, ok, row) ==
    IF ok THEN [rows |-> Append(h, row), threw |-> FALSE]
          ELSE [rows |-> h, threw |-> TRUE]

\* createTemplateHistory: the INSERT either commits or throws; the throw is
\* caught and logged inside, so the call never throws
createTemplateHistory(h, ok, row) ==
    IF ok THEN [rows |-> Append(h, row), threw |-> FALSE]
          ELSE [rows |-> h, threw |-> FALSE]

\* createAuditLog: same try/catch around the INSERT
createAuditLog(a, ok, row) ==
    IF ok THEN [rows |-> Append(a, row), threw |-> FALSE]
          ELSE [rows |-> a, threw |-> FALSE]

Reply(op, code) == [op |-> op, code |-> code]

\* the tail of a handler after its entity mutation: the history write, then
\* the audit write, then the success reply; an exception leaving either write
\* skips the rest and reaches the global error handler, which answers 500
AfterLedgers(op, code, hw, aw) ==
    /\ history' = hw.rows
    /\ audit' = IF hw.threw THEN audit ELSE aw.rows
    /\ reply' = Reply(op, IF hw.threw \/ aw.threw THEN 500 ELSE code)

\* the client connections whose requests the event loop interleaves at the
\* await points of the handlers
Clients == {"c1", "c2"}

\* a connection with no request in flight
Idle == [pc |-> "idle"]

\* a request that was answered: its handler has returned
Finished(call, code) == [call EXCEPT !.pc = "done", !.code = code]

\* every request that reaches a handler is counted; a handler written as one
\* action runs from its first statement to its reply with no other request
\* in between
Serve == served' = served + 1 /\ UNCHANGED <<calls, authData, page>>

\* requests are sent while the request budget lasts (model bound)
RequestBudget(budget) == served < budget

\* ON DELETE CASCADE of template_history and template_applications
CascadeHistory(h, id) == SelectSeq(h, LAMBDA r : r.templateId # id)
CascadeApps(rows, id) == {r \in rows : r.templateId # id}

\* findMany on template_history with where: { templateId: id }: the Change
\* Ledger entries of one template, in insertion order
EntriesOf(h, id) == SelectSeq(h, LAMBDA r : r.templateId = id)

\* variant of orderBy that sorts by createdAt ascending
OrderByCreatedAtDesc_Asc(rows) ==
    LET n == Len(rows)
        perms == {p \in [1..n -> 1..n] : \A i \in 1..n, j \in 1..n : i # j => p[i] # p[j]}
    IN  { [i \in 1..n |-> rows[p[i]]] :
            p \in {q \in perms : \A i \in 1..(n - 1) :
                       rows[q[i]].createdAt <= rows[q[i + 1]].createdAt} }

\* orderBy: { createdAt: 'desc' }: the orders in which the rows may come back;
\* rows with the same createdAt come in any order
OrderByCreatedAtDesc(rows) ==
    LET n == Len(rows)
        perms == {p \in [1..n -> 1..n] : \A i \in 1..n, j \in 1..n : i # j => p[i] # p[j]}
    IN  { [i \in 1..n |-> rows[p[i]]] :
            p \in {q \in perms : \A i \in 1..(n - 1) :
                       rows[q[i]].createdAt >= rows[q[i + 1]].createdAt} }

(* ---------------------------- request inputs --------------------------- *)
\* bodies sent to POST /templates
CreateBodies ==
    { [regions |-> {"eastus"}, primaryRegion |-> "eastus", businessUnitId |-> 1],
      [regions |-> {"eastus"}, primaryRegion |-> "eastus", businessUnitId |-> 1,
       status |-> "DEPLOYED", deployedDate |-> 1],
      [regions |-> {}, primaryRegion |-> "eastus", businessUnitId |-> 1] }

\* bodies sent to PUT /templates/:id
UpdateBodies ==
    { [primaryRegion |-> "westus"],
      [status |-> "DRAFT", approvedDate |-> NoDate,
       deployedDate |-> NoDate, deprecatedDate |-> NoDate],
      [regions |-> {}] }

\* bodies sent to PATCH /templates/:id/status
StatusBodies == { [status |-> s] : s \in Statuses \cup {BadStatus} }

\* bodies sent to POST /templates/:id/applications
AddBodies ==
    { [applicationId |-> a, installOrder |-> o] : a \in PathAppIds, o \in Orders }
    \cup { [applicationId |-> a] : a \in AppIds }
    \cup { [applicationId |-> 1, installOrder |-> -1] }

\* bodies sent to PUT /templates/:id/applications/:appId
UpdateAppBodies ==
    { [installOrder |-> o] : o \in Orders \cup {-1} }

\* bodies (the applications array) sent to PATCH /templates/:id/applications/reorder
ReorderItems ==
    { [applicationId |-> a, installOrder |-> o] : a \in PathAppIds, o \in Orders }
    \cup { [applicationId |-> 1, installOrder |-> -1] }
\* lists of at most two different items, applications in ascending order
ReorderBodies ==
    {<<>>} \cup { <<x>> : x \in ReorderItems }
           \cup { <<p[1], p[2]>> :
                    p \in {q \in ReorderItems \X ReorderItems :
                             q[1] # q[2] /\ q[1].applicationId <= q[2].applicationId} }

\* bodies sent to POST /applications: an empty name, the names in use, a new one
ApplicationBodies == { [name |-> n] : n \in 0..(NumApps + 1) }

\* bodies sent to POST /business-units
BusinessUnitBodies ==
    { [code |-> c, name |-> c] : c \in 0..(NumBusinessUnits + 1) }
    \cup { [code |-> NumBusinessUnits + 1, name |-> 1] }

\* bodies sent to POST /contacts
ContactBodies ==
    { [email |-> e, isPrimary |-> p, businessUnitId |-> b] :
        e \in 0..(NumContacts + 1), p \in BOOLEAN, b \in 1..(NumBusinessUnits + 1) }
    \cup { [email |-> NumContacts + 1, businessUnitId |-> 1] }

\* bodies sent to POST /templates that name a contact
ContactTemplateBodies ==
    { [regions |-> {"eastus"}, primaryRegion |-> "eastus",
       businessUnitId |-> b, contactId |-> c] :
        b \in 1..(NumBusinessUnits + 1), c \in 1..(NumContacts + 1) }

Init ==
    /\ templates = <<>>
    /\ nextId = 1
    /\ templateApps = {}
    /\ history = <<>>
    /\ audit = <<>>
    /\ clock = 1
    /\ reply = Reply("none", 0)
    /\ served = 0
    /\ applications = [a \in AppIds |-> [name |-> a]]
    /\ businessUnits = [b \in BusinessUnitIds |-> [code |-> b, name |-> b]]
    /\ contacts = [c \in ContactIds |->
                     [businessUnitId |-> 1, email |-> c, isPrimary |-> FALSE]]
    /\ nextIds = [application |-> NumApps + 1,
                  businessUnit |-> NumBusinessUnits + 1,
                  contact |-> NumContacts + 1]
    /\ calls = [p \in Clients |-> Idle]
    /\ sessions = {}
    /\ issued = {}
    /\ passwordHash = 1
    /\ page = NoPage

(* ------------------------------- actions ------------------------------- *)
\* time passes between two readings of the clock
Tick ==
    /\ clock < MaxClock
    /\ clock' = clock + 1
    /\ UNCHANGED <<templates, nextId, templateApps, history, audit, reply, served,
                   masterData, calls, authData, page>>

\* POST /templates
CreateTemplate(body, histOk, auditOk) ==
    LET result == createTemplateSchema(body)
        template == ApplyData(ColumnDefaults, result.data)
    IN  /\ Serve
        /\ nextId <= MaxTemplates
        /\ IF ~result.success
           THEN /\ reply' = Reply("create", 400)
                /\ UNCHANGED <<templates, nextId, templateApps, history, audit, clock, masterData>>
           ELSE IF ~ForeignKeysHold(template)
           THEN \* foreign-key violation: create throws, the error handler answers
                /\ reply' = Reply("create", 500)
                /\ UNCHANGED <<templates, nextId, templateApps, history, audit, clock, masterData>>
           ELSE /\ templates' = templates @@ (nextId :> template)
                /\ nextId' = nextId + 1
                /\ AfterLedgers("create", 201,
                        createTemplateHistory(history, histOk,
                            HistoryRow(nextId, "CREATED", NoStatus, template.status, NoChanges)),
                        createAuditLog(audit, auditOk,
                            AuditRow("TEMPLATE_CREATED", nextId)))
                /\ UNCHANGED <<templateApps, clock, masterData>>

\* PUT /templates/:id
UpdateTemplate(id, body, histOk, auditOk) ==
    LET result == updateTemplateSchema(body)
    IN  /\ Serve
        /\ IF ~result.success
           THEN /\ reply' = Reply("update", 400)
                /\ UNCHANGED <<templates, nextId, templateApps, history, audit, clock, masterData>>
           ELSE IF id \notin DOMAIN templates
           THEN /\ reply' = Reply("update", 404)
                /\ UNCHANGED <<templates, nextId, templateApps, history, audit, clock, masterData>>
           ELSE IF ~ForeignKeysHold(ApplyData(templates[id], result.data))
           THEN \* foreign-key violation: update throws
                /\ reply' = Reply("update", 500)
                /\ UNCHANGED <<templates, nextId, templateApps, history, audit, clock, masterData>>
           ELSE /\ templates' = [templates EXCEPT ![id] = ApplyData(@, result.data)]
                /\ AfterLedgers("update", 200,
                        createTemplateHistory(history, histOk,
                            HistoryRow(id, "UPDATED", NoStatus, NoStatus, result.data)),
                        createAuditLog(audit, auditOk,
                            AuditRow("TEMPLATE_UPDATED", id)))
                /\ UNCHANGED <<nextId, templateApps, clock, masterData>>

\* PATCH /templates/:id/status
UpdateTemplateStatus(id, body, histOk, auditOk) ==
    LET result == updateTemplateStatusSchema(body)
        status == result.data["status"]
    IN  /\ Serve
        /\ IF ~result.success
           THEN /\ reply' = Reply("status", 400)
                /\ UNCHANGED <<templates, nextId, templateApps, history, audit, clock, masterData>>
           ELSE IF id \notin DOMAIN templates
           THEN /\ reply' = Reply("status", 404)
                /\ UNCHANGED <<templates, nextId, templateApps, history, audit, clock, masterData>>
           ELSE /\ templates' = [templates EXCEPT ![id] =
                        ApplyData(@, [status |-> status] @@ dateUpdates(status))]
                /\ AfterLedgers("status", 200,
                        createTemplateHistory(history, histOk,
                            HistoryRow(id, "STATUS_CHANGED", templates[id].status,
                                       status, NoChanges)),
                        createAuditLog(audit, auditOk,
                            AuditRow("TEMPLATE_STATUS_CHANGED", id)))
                /\ UNCHANGED <<nextId, templateApps, clock, masterData>>

\* variant of DELETE /templates/:id in which audit_logs rows cascade with the
\* template they describe
DeleteTemplate_CascadeAudit(id, auditOk) ==
    /\ Serve
    /\ IF id \notin DOMAIN templates
       THEN /\ reply' = Reply("delete", 404)
            /\ UNCHANGED <<templates, nextId, templateApps, history, audit, clock, masterData>>
       ELSE /\ templates' = [t \in (DOMAIN templates) \ {id} |-> templates[t]]
            /\ templateApps' = CascadeApps(templateApps, id)
            /\ AfterLedgers("delete", 200,
                    NoWrite(CascadeHistory(history, id)),
                    createAuditLog(
                        SelectSeq(audit, LAMBDA r :
                            ~(r.entityType = "Template" /\ r.entityId = id)),
                        auditOk, AuditRow("TEMPLATE_DELETED", id)))
            /\ UNCHANGED <<nextId, clock, masterData>>

\* DELETE /templates/:id
DeleteTemplate(id, auditOk) ==
    /\ Serve
    /\ IF id \notin DOMAIN templates
       THEN /\ reply' = Reply("delete", 404)
            /\ UNCHANGED <<templates, nextId, templateApps, history, audit, clock, masterData>>
       ELSE /\ templates' = [t \in (DOMAIN templates) \ {id} |-> templates[t]]
            /\ templateApps' = CascadeApps(templateApps, id)
            /\ AfterLedgers("delete", 200,
                    NoWrite(CascadeHistory(history, id)),
                    createAuditLog(audit, auditOk,
                        AuditRow("TEMPLATE_DELETED", id)))
            /\ UNCHANGED <<nextId, clock, masterData>>

\* POST /templates/:id/duplicate
DuplicateTemplate(id, histOk) ==
    /\ Serve
    /\ nextId <= MaxTemplates
    /\ IF id \notin DOMAIN templates
       THEN /\ reply' = Reply("duplicate", 404)
            /\ UNCHANGED <<templates, nextId, templateApps, history, audit, clock, masterData>>
       ELSE /\ templates' = templates @@
                    (nextId :> ApplyData(templates[id],
                        [status |-> "DRAFT", approvedDate |-> NoDate,
                         deployedDate |-> NoDate, deprecatedDate |-> NoDate]))
            /\ nextId' = nextId + 1
            /\ templateApps' = templateApps \cup
                    { [templateId |-> nextId, applicationId |-> r.applicationId,
                       installOrder |-> r.installOrder] :
                      r \in {x \in templateApps : x.templateId = id} }
            /\ AfterLedgers("duplicate", 201,
                    createTemplateHistory(history, histOk,
                        HistoryRow(nextId, "CREATED", NoStatus, "DRAFT", NoChanges)),
                    NoWrite(audit))
            /\ UNCHANGED <<clock, masterData>>

\* GET /templates/:id/history
GetTemplateHistory(id) ==
    /\ Serve
    /\ \E data \in OrderByCreatedAtDesc(EntriesOf(history, id)) :
          reply' = [op |-> "history", code |-> 200, data |-> data]
    /\ UNCHANGED <<templates, nextId, templateApps, history, audit, clock, masterData>>

\* the template_applications row of (id, appId), if any
TemplateAppRows(rows, id, appId) ==
    {r \in rows : r.templateId = id /\ r.applicationId = appId}

\* prisma.templateApplication.update of one row's installOrder
SetInstallOrder(rows, id, appId, order) ==
    {IF r.templateId = id /\ r.applicationId = appId
     THEN [r EXCEPT !.installOrder = order] ELSE r : r \in rows}

\* the updates of a reorder transaction, applied in array order
RECURSIVE ApplyReorder(_, _, _)
ApplyReorder(rows, id, items) ==
    IF items = <<>> THEN rows
    ELSE ApplyReorder(
            SetInstallOrder(rows, id, Head(items).applicationId, Head(items).installOrder),
            id, Tail(items))

\* variant of POST /templates/:id/applications without the findUnique check
AddTemplateApplication_NoCheck(id, body, histOk) ==
    LET result == addTemplateApplicationSchema(body)
        appId == result.data.applicationId
    IN  /\ Serve
        /\ IF ~result.success
           THEN /\ reply' = Reply("addApp", 400)
                /\ UNCHANGED <<templates, nextId, templateApps, history, audit, clock, masterData>>
           ELSE IF id \notin DOMAIN templates \/ appId \notin DOMAIN applications
           THEN /\ reply' = Reply("addApp", 500)
                /\ UNCHANGED <<templates, nextId, templateApps, history, audit, clock, masterData>>
           ELSE /\ templateApps' = templateApps \cup
                        {[templateId |-> id, applicationId |-> appId,
                          installOrder |-> result.data.installOrder]}
                /\ AfterLedgers("addApp", 201,
                        createTemplateHistory(history, histOk,
                            HistoryRow(id, "APP_ADDED", NoStatus, NoStatus,
                                       [applicationId |-> appId])),
                        NoWrite(audit))
                /\ UNCHANGED <<templates, nextId, clock, masterData>>

\* POST /templates/:id/applications
AddTemplateApplication(id, body, histOk) ==
    LET result == addTemplateApplicationSchema(body)
        appId == result.data.applicationId
    IN  /\ Serve
        /\ IF ~result.success
           THEN /\ reply' = Reply("addApp", 400)
                /\ UNCHANGED <<templates, nextId, templateApps, history, audit, clock, masterData>>
           ELSE IF TemplateAppRows(templateApps, id, appId) # {}
           THEN /\ reply' = Reply("addApp", 409)
                /\ UNCHANGED <<templates, nextId, templateApps, history, audit, clock, masterData>>
           ELSE IF id \notin DOMAIN templates \/ appId \notin DOMAIN applications
           THEN \* foreign-key violation: create throws, the error handler answers
                /\ reply' = Reply("addApp", 500)
                /\ UNCHANGED <<templates, nextId, templateApps, history, audit, clock, masterData>>
           ELSE /\ templateApps' = templateApps \cup
                        {[templateId |-> id, applicationId |-> appId,
                          installOrder |-> result.data.installOrder]}
                /\ AfterLedgers("addApp", 201,
                        createTemplateHistory(history, histOk,
                            HistoryRow(id, "APP_ADDED", NoStatus, NoStatus,
                                       [applicationId |-> appId])),
                        NoWrite(audit))
                /\ UNCHANGED <<templates, nextId, clock, masterData>>

\* PUT /templates/:id/applications/:appId
UpdateTemplateApplication(id, appId, body) ==
    LET result == updateTemplateApplicationSchema(body)
    IN  /\ Serve
        /\ IF ~result.success
           THEN /\ reply' = Reply("updateApp", 400)
                /\ UNCHANGED <<templates, nextId, templateApps, history, audit, clock, masterData>>
           ELSE IF TemplateAppRows(templateApps, id, appId) = {}
           THEN \* record to update not found: update throws
                /\ reply' = Reply("updateApp", 500)
                /\ UNCHANGED <<templates, nextId, templateApps, history, audit, clock, masterData>>
           ELSE /\ templateApps' =
                        {IF r.templateId = id /\ r.applicationId = appId
                         THEN ApplyData(r, result.data) ELSE r : r \in templateApps}
                /\ reply' = Reply("updateApp", 200)
                /\ UNCHANGED <<templates, nextId, history, audit, clock, masterData>>

\* DELETE /templates/:id/applications/:appId
RemoveTemplateApplication(id, appId, histOk) ==
    /\ Serve
    /\ IF TemplateAppRows(templateApps, id, appId) = {}
       THEN \* record to delete not found: delete throws
            /\ reply' = Reply("removeApp", 500)
            /\ UNCHANGED <<templates, nextId, templateApps, history, audit, clock, masterData>>
       ELSE /\ templateApps' = templateApps \ TemplateAppRows(templateApps, id, appId)
            /\ AfterLedgers("removeApp", 200,
                    createTemplateHistory(history, histOk,
                        HistoryRow(id, "APP_REMOVED", NoStatus, NoStatus,
                                   [applicationId |-> appId])),
                    NoWrite(audit))
            /\ UNCHANGED <<templates, nextId, clock, masterData>>

\* the updates of a reorder run one after the other outside a transaction:
\* the ones before the first failing update stay committed
RECURSIVE ApplyUntilFailure(_, _, _)
ApplyUntilFailure(rows, id, items) ==
    IF items = <<>> THEN rows
    ELSE IF TemplateAppRows(rows, id, Head(items).applicationId) = {} THEN rows
    ELSE ApplyUntilFailure(
            SetInstallOrder(rows, id, Head(items).applicationId, Head(items).installOrder),
            id, Tail(items))

\* variant of PATCH /templates/:id/applications/reorder without $transaction
ReorderApplications_NoTransaction(id, body) ==
    LET result == reorderApplicationsSchema(body)
        items == result.data
    IN  /\ Serve
        /\ IF ~result.success
           THEN /\ reply' = Reply("reorder", 400)
                /\ UNCHANGED <<templates, nextId, templateApps, history, audit, clock, masterData>>
           ELSE IF \E i \in DOMAIN items :
                        TemplateAppRows(templateApps, id, items[i].applicationId) = {}
           THEN /\ templateApps' = ApplyUntilFailure(templateApps, id, items)
                /\ reply' = Reply("reorder", 500)
                /\ UNCHANGED <<templates, nextId, history, audit, clock, masterData>>
           ELSE /\ templateApps' = ApplyReorder(templateApps, id, items)
                /\ reply' = Reply("reorder", 200)
                /\ UNCHANGED <<templates, nextId, history, audit, clock, masterData>>

\* PATCH /templates/:id/applications/reorder
ReorderApplications(id, body) ==
    LET result == reorderApplicationsSchema(body)
        items == result.data
    IN  /\ Serve
        /\ IF ~result.success
           THEN /\ reply' = Reply("reorder", 400)
                /\ UNCHANGED <<templates, nextId, templateApps, history, audit, clock, masterData>>
           ELSE IF \E i \in DOMAIN items :
                        TemplateAppRows(templateApps, id, items[i].applicationId) = {}
           THEN \* one update throws: the transaction rolls back
                /\ reply' = Reply("reorder", 500)
                /\ UNCHANGED <<templates, nextId, templateApps, history, audit, clock, masterData>>
           ELSE /\ templateApps' = ApplyReorder(templateApps, id, items)
                /\ reply' = Reply("reorder", 200)
                /\ UNCHANGED <<templates, nextId, history, audit, clock, masterData>>

(* ------------------------- master-data handlers ----------------------- *)
\* a row is removed from a table
RemoveRow(table, id) == [r \in (DOMAIN table) \ {id} |-> table[r]]

\* POST /applications
CreateApplication(body, auditOk) ==
    LET result == createApplicationSchema(body)
        id == nextIds.application
    IN  /\ Serve
        /\ id \in PathAppIds
        /\ IF ~result.success
           THEN /\ reply' = Reply("createApplication", 400)
                /\ UNCHANGED <<templates, nextId, templateApps, history, audit, clock, masterData>>
           ELSE IF \E a \in DOMAIN applications : applications[a].name = result.data.name
           THEN /\ reply' = Reply("createApplication", 409)
                /\ UNCHANGED <<templates, nextId, templateApps, history, audit, clock, masterData>>
           ELSE /\ applications' = applications @@ (id :> [name |-> result.data.name])
                /\ nextIds' = [nextIds EXCEPT !.application = @ + 1]
                /\ AfterLedgers("createApplication", 201, NoWrite(history),
                        createAuditLog(audit, auditOk,
                            AuditEntry("APPLICATION_CREATED", "Application", id)))
                /\ UNCHANGED <<templates, nextId, templateApps, clock, businessUnits, contacts>>

\* variant of DELETE /applications/:id that skips the _count.templates check:
\* template_applications_applicationId_fkey is ON DELETE CASCADE
DeleteApplication_NoCheck(id, auditOk) ==
    /\ Serve
    /\ IF id \notin DOMAIN applications
       THEN /\ reply' = Reply("deleteApplication", 404)
            /\ UNCHANGED <<templates, nextId, templateApps, history, audit, clock, masterData>>
       ELSE /\ applications' = RemoveRow(applications, id)
            /\ templateApps' = {r \in templateApps : r.applicationId # id}
            /\ AfterLedgers("deleteApplication", 200, NoWrite(history),
                    createAuditLog(audit, auditOk,
                        AuditEntry("APPLICATION_DELETED", "Application", id)))
            /\ UNCHANGED <<templates, nextId, clock, businessUnits, contacts, nextIds>>

\* DELETE /applications/:id
DeleteApplication(id, auditOk) ==
    /\ Serve
    /\ IF id \notin DOMAIN applications
       THEN /\ reply' = Reply("deleteApplication", 404)
            /\ UNCHANGED <<templates, nextId, templateApps, history, audit, clock, masterData>>
       ELSE IF \E r \in templateApps : r.applicationId = id
       THEN /\ reply' = Reply("deleteApplication", 409)
            /\ UNCHANGED <<templates, nextId, templateApps, history, audit, clock, masterData>>
       ELSE /\ applications' = RemoveRow(applications, id)
            /\ AfterLedgers("deleteApplication", 200, NoWrite(history),
                    createAuditLog(audit, auditOk,
                        AuditEntry("APPLICATION_DELETED", "Application", id)))
            /\ UNCHANGED <<templates, nextId, templateApps, clock, businessUnits, contacts, nextIds>>

\* POST /business-units
CreateBusinessUnit(body, auditOk) ==
    LET result == createBusinessUnitSchema(body)
        id == nextIds.businessUnit
    IN  /\ Serve
        /\ id <= NumBusinessUnits + 1
        /\ IF ~result.success
           THEN /\ reply' = Reply("createBusinessUnit", 400)
                /\ UNCHANGED <<templates, nextId, templateApps, history, audit, clock, masterData>>
           ELSE IF \/ \E b \in DOMAIN businessUnits : businessUnits[b].code = result.data.code
                   \/ \E b \in DOMAIN businessUnits : businessUnits[b].name = result.data.name
           THEN /\ reply' = Reply("createBusinessUnit", 409)
                /\ UNCHANGED <<templates, nextId, templateApps, history, audit, clock, masterData>>
           ELSE /\ businessUnits' = businessUnits @@
                        (id :> [code |-> result.data.code, name |-> result.data.name])
                /\ nextIds' = [nextIds EXCEPT !.businessUnit = @ + 1]
                /\ AfterLedgers("createBusinessUnit", 201, NoWrite(history),
                        createAuditLog(audit, auditOk,
                            AuditEntry("BUSINESS_UNIT_CREATED", "BusinessUnit", id)))
                /\ UNCHANGED <<templates, nextId, templateApps, clock, applications, contacts>>

\* DELETE /business-units/:id; contacts_businessUnitId_fkey is ON DELETE
\* CASCADE, and templates_contactId_fkey is ON DELETE SET NULL
DeleteBusinessUnit(id, auditOk) ==
    LET cascaded == {c \in DOMAIN contacts : contacts[c].businessUnitId = id}
    IN  /\ Serve
        /\ IF id \notin DOMAIN businessUnits
           THEN /\ reply' = Reply("deleteBusinessUnit", 404)
                /\ UNCHANGED <<templates, nextId, templateApps, history, audit, clock, masterData>>
           ELSE IF \E t \in DOMAIN templates : templates[t].businessUnitId = id
           THEN /\ reply' = Reply("deleteBusinessUnit", 409)
                /\ UNCHANGED <<templates, nextId, templateApps, history, audit, clock, masterData>>
           ELSE /\ businessUnits' = RemoveRow(businessUnits, id)
                /\ contacts' = [c \in (DOMAIN contacts) \ cascaded |-> contacts[c]]
                /\ templates' = [t \in DOMAIN templates |->
                        IF templates[t].contactId \in cascaded
                        THEN [templates[t] EXCEPT !.contactId = NoContact]
                        ELSE templates[t]]
                /\ AfterLedgers("deleteBusinessUnit", 200, NoWrite(history),
                        createAuditLog(audit, auditOk,
                            AuditEntry("BUSINESS_UNIT_DELETED", "BusinessUnit", id)))
                /\ UNCHANGED <<nextId, templateApps, clock, applications, nextIds>>

\* prisma.contact.updateMany({ where: { businessUnitId, isPrimary: true },
\* data: { isPrimary: false } })
UnsetPrimaries(table, businessUnitId) ==
    [c \in DOMAIN table |->
        IF table[c].businessUnitId = businessUnitId
        THEN [table[c] EXCEPT !.isPrimary = FALSE] ELSE table[c]]

\* the unique index contacts_email_businessUnitId_key already holds the key
ContactKeyTaken(data) ==
    \E c \in DOMAIN contacts :
        /\ contacts[c].email = data.email
        /\ contacts[c].businessUnitId = data.businessUnitId

\* POST /contacts; the updateMany and the create are separate statements
CreateContact(body, auditOk) ==
    LET result == createContactSchema(body)
        id == nextIds.contact
        others == IF result.data.isPrimary
                  THEN UnsetPrimaries(contacts, result.data.businessUnitId)
                  ELSE contacts
    IN  /\ Serve
        /\ IF ~result.success
           THEN /\ reply' = Reply("createContact", 400)
                /\ UNCHANGED <<templates, nextId, templateApps, history, audit, clock, masterData>>
           ELSE IF \/ result.data.businessUnitId \notin DOMAIN businessUnits
                   \/ ContactKeyTaken(result.data)
           THEN \* foreign-key or unique-index violation: create throws
                /\ contacts' = others
                /\ reply' = Reply("createContact", 500)
                /\ UNCHANGED <<templates, nextId, templateApps, history, audit, clock,
                               applications, businessUnits, nextIds>>
           ELSE /\ id <= NumContacts + 1
                /\ contacts' = others @@ (id :> result.data)
                /\ nextIds' = [nextIds EXCEPT !.contact = @ + 1]
                /\ AfterLedgers("createContact", 201, NoWrite(history),
                        createAuditLog(audit, auditOk,
                            AuditEntry("CONTACT_CREATED", "Contact", id)))
                /\ UNCHANGED <<templates, nextId, templateApps, clock, applications, businessUnits>>

\* DELETE /contacts/:id
DeleteContact(id, auditOk) ==
    /\ Serve
    /\ IF id \notin DOMAIN contacts
       THEN /\ reply' = Reply("deleteContact", 404)
            /\ UNCHANGED <<templates, nextId, templateApps, history, audit, clock, masterData>>
       ELSE IF \E t \in DOMAIN templates : templates[t].contactId = id
       THEN /\ reply' = Reply("deleteContact", 409)
            /\ UNCHANGED <<templates, nextId, templateApps, history, audit, clock, masterData>>
       ELSE /\ contacts' = RemoveRow(contacts, id)
            /\ AfterLedgers("deleteContact", 200, NoWrite(history),
                    createAuditLog(audit, auditOk,
                        AuditEntry("CONTACT_DELETED", "Contact", id)))
            /\ UNCHANGED <<templates, nextId, templateApps, clock, applications, businessUnits, nextIds>>

(* ------------------------- interleaved handlers ------------------------ *)
\* A handler is a sequence of awaited statements; between two of them the
\* event loop may run statements of another connection's handler.  Each
\* action below is one awaited statement together with the synchronous code
\* before it.

\* the call in flight on connection p moves on
SetCall(p, call) == calls' = [calls EXCEPT ![p] = call]

\* connection p can send a request: none of its requests is in flight
CanSend(p) == calls[p].pc \in {"idle", "done"}

\* variant of the start of a status change that skips prisma.template.update
\* and goes straight to the ledger write
StatusFind_SkipUpdate(p, id, body) ==
    LET result == updateTemplateStatusSchema(body)
        call == [pc |-> "history", op |-> "status", id |-> id,
                 status |-> result.data["status"], existing |-> NoStatus, code |-> 0]
    IN  /\ CanSend(p)
        /\ served' = served + 1
        /\ IF ~result.success
           THEN SetCall(p, Finished(call, 400)) /\ reply' = Reply("status", 400)
           ELSE IF id \notin DOMAIN templates
           THEN SetCall(p, Finished(call, 404)) /\ reply' = Reply("status", 404)
           ELSE /\ SetCall(p, [call EXCEPT !.existing = templates[id].status])
                /\ UNCHANGED reply
        /\ UNCHANGED <<templates, nextId, templateApps, history, audit, clock, masterData,
                       authData, page>>

\* PATCH /templates/:id/status up to prisma.template.findUnique
StatusFind(p, id, body) ==
    LET result == updateTemplateStatusSchema(body)
        call == [pc |-> "update", op |-> "status", id |-> id,
                 status |-> result.data["status"], existing |-> NoStatus, code |-> 0]
    IN  /\ CanSend(p)
        /\ served' = served + 1
        /\ IF ~result.success
           THEN SetCall(p, Finished(call, 400)) /\ reply' = Reply("status", 400)
           ELSE IF id \notin DOMAIN templates
           THEN SetCall(p, Finished(call, 404)) /\ reply' = Reply("status", 404)
           ELSE /\ SetCall(p, [call EXCEPT !.existing = templates[id].status])
                /\ UNCHANGED reply
        /\ UNCHANGED <<templates, nextId, templateApps, history, audit, clock, masterData,
                       authData, page>>

\* variant of prisma.template.update of the status change that writes only
\* if the status is still the one findUnique returned
StatusUpdate_IfUnchanged(p) ==
    LET call == calls[p]
    IN  /\ call.pc = "update" /\ call.op = "status"
        /\ IF call.id \notin DOMAIN templates
              \/ templates[call.id].status # call.existing
           THEN /\ SetCall(p, Finished(call, 500))
                /\ reply' = Reply("status", 500)
                /\ UNCHANGED templates
           ELSE /\ templates' = [templates EXCEPT ![call.id] =
                        ApplyData(@, [status |-> call.status] @@ dateUpdates(call.status))]
                /\ SetCall(p, [call EXCEPT !.pc = "history"])
                /\ UNCHANGED reply
        /\ UNCHANGED <<nextId, templateApps, history, audit, clock, served, masterData, authData, page>>

\* prisma.template.update of the status change
StatusUpdate(p) ==
    LET call == calls[p]
    IN  /\ call.pc = "update" /\ call.op = "status"
        /\ IF call.id \notin DOMAIN templates
           THEN \* record to update not found: update throws
                /\ SetCall(p, Finished(call, 500))
                /\ reply' = Reply("status", 500)
                /\ UNCHANGED templates
           ELSE /\ templates' = [templates EXCEPT ![call.id] =
                        ApplyData(@, [status |-> call.status] @@ dateUpdates(call.status))]
                /\ SetCall(p, [call EXCEPT !.pc = "history"])
                /\ UNCHANGED reply
        /\ UNCHANGED <<nextId, templateApps, history, audit, clock, served, masterData, authData, page>>

\* createTemplateHistory of the status change; oldStatus is the status that
\* findUnique returned
StatusHistory(p, histOk) ==
    LET call == calls[p]
    IN  /\ call.pc = "history" /\ call.op = "status"
        /\ history' = createTemplateHistory(history,
                            histOk /\ call.id \in DOMAIN templates,
                            HistoryRow(call.id, "STATUS_CHANGED", call.existing,
                                       call.status, NoChanges)).rows
        /\ SetCall(p, [call EXCEPT !.pc = "audit"])
        /\ UNCHANGED <<templates, nextId, templateApps, audit, clock, reply, served, masterData,
                       authData, page>>

\* createAuditLog of the status change, then the reply
StatusAudit(p, auditOk) ==
    LET call == calls[p]
    IN  /\ call.pc = "audit" /\ call.op = "status"
        /\ audit' = createAuditLog(audit, auditOk,
                        AuditRow("TEMPLATE_STATUS_CHANGED", call.id)).rows
        /\ SetCall(p, Finished(call, 200))
        /\ reply' = Reply("status", 200)
        /\ UNCHANGED <<templates, nextId, templateApps, history, clock, served, masterData,
                       authData, page>>

\* the statements of status-change requests, interleaved; both ledger writes
\* commit
StatusStatements(budget) ==
    \/ \E p \in Clients, id \in PathIds, body \in StatusBodies :
          RequestBudget(budget) /\ StatusFind(p, id, body)
    \/ \E p \in Clients : StatusUpdate(p)
    \/ \E p \in Clients : StatusHistory(p, TRUE)
    \/ \E p \in Clients : StatusAudit(p, TRUE)

\* templates are created and their status is changed by two connections at
\* once
NextRace ==
    \/ \E body \in CreateBodies :
          RequestBudget(MaxRaceRequests) /\ CreateTemplate(body, TRUE, TRUE)
    \/ StatusStatements(MaxRaceRequests)

SpecRace == Init /\ [][NextRace]_vars

\* the server process stops between two statements: the handlers in flight
\* are abandoned, what they committed stays in the database
Crash ==
    /\ \E p \in Clients : ~CanSend(p)
    /\ calls' = [p \in Clients |-> Idle]
    /\ UNCHANGED <<templates, nextId, templateApps, history, audit, clock, reply, served,
                   masterData, authData, page>>

\* status changes interleave and the server may stop between two statements
NextCrash ==
    \/ \E body \in CreateBodies :
          RequestBudget(MaxRaceRequests) /\ CreateTemplate(body, TRUE, TRUE)
    \/ StatusStatements(MaxRaceRequests)
    \/ Crash

SpecCrash == Init /\ [][NextCrash]_vars

\* POST /templates/:id/applications up to prisma.templateApplication.findUnique
AttachFind(p, id, body) ==
    LET result == addTemplateApplicationSchema(body)
        call == [pc |-> "create", op |-> "addApp", id |-> id,
                 applicationId |-> result.data.applicationId,
                 installOrder |-> result.data.installOrder, code |-> 0]
    IN  /\ CanSend(p)
        /\ served' = served + 1
        /\ IF ~result.success
           THEN SetCall(p, Finished(call, 400)) /\ reply' = Reply("addApp", 400)
           ELSE IF TemplateAppRows(templateApps, id, call.applicationId) # {}
           THEN SetCall(p, Finished(call, 409)) /\ reply' = Reply("addApp", 409)
           ELSE SetCall(p, call) /\ UNCHANGED reply
        /\ UNCHANGED <<templates, nextId, templateApps, history, audit, clock, masterData,
                       authData, page>>

\* prisma.templateApplication.create of the attach
AttachCreate(p) ==
    LET call == calls[p]
    IN  /\ call.pc = "create" /\ call.op = "addApp"
        /\ IF \/ call.id \notin DOMAIN templates
              \/ call.applicationId \notin DOMAIN applications
              \/ TemplateAppRows(templateApps, call.id, call.applicationId) # {}
           THEN \* foreign-key or unique-index violation: create throws
                /\ SetCall(p, Finished(call, 500))
                /\ reply' = Reply("addApp", 500)
                /\ UNCHANGED templateApps
           ELSE /\ templateApps' = templateApps \cup
                        {[templateId |-> call.id, applicationId |-> call.applicationId,
                          installOrder |-> call.installOrder]}
                /\ SetCall(p, [call EXCEPT !.pc = "history"])
                /\ UNCHANGED reply
        /\ UNCHANGED <<templates, nextId, history, audit, clock, served, masterData, authData, page>>

\* createTemplateHistory of the attach, then the reply
AttachHistory(p, histOk) ==
    LET call == calls[p]
    IN  /\ call.pc = "history" /\ call.op = "addApp"
        /\ history' = createTemplateHistory(history,
                            histOk /\ call.id \in DOMAIN templates,
                            HistoryRow(call.id, "APP_ADDED", NoStatus, NoStatus,
                                       [applicationId |-> call.applicationId])).rows
        /\ SetCall(p, Finished(call, 201))
        /\ reply' = Reply("addApp", 201)
        /\ UNCHANGED <<templates, nextId, templateApps, audit, clock, served, masterData,
                       authData, page>>

\* DELETE /applications/:id up to prisma.application.findUnique with the
\* count of its template_applications rows
DeleteApplicationFind(p, id) ==
    LET call == [pc |-> "delete", op |-> "deleteApplication", id |-> id, code |-> 0]
    IN  /\ CanSend(p)
        /\ served' = served + 1
        /\ IF id \notin DOMAIN applications
           THEN SetCall(p, Finished(call, 404)) /\ reply' = Reply("deleteApplication", 404)
           ELSE IF \E r \in templateApps : r.applicationId = id
           THEN SetCall(p, Finished(call, 409)) /\ reply' = Reply("deleteApplication", 409)
           ELSE SetCall(p, call) /\ UNCHANGED reply
        /\ UNCHANGED <<templates, nextId, templateApps, history, audit, clock, masterData,
                       authData, page>>

\* prisma.application.delete; template_applications_applicationId_fkey is ON
\* DELETE CASCADE
DeleteApplicationDelete(p) ==
    LET call == calls[p]
    IN  /\ call.pc = "delete" /\ call.op = "deleteApplication"
        /\ IF call.id \notin DOMAIN applications
           THEN \* record to delete not found: delete throws
                /\ SetCall(p, Finished(call, 500))
                /\ reply' = Reply("deleteApplication", 500)
                /\ UNCHANGED <<templateApps, masterData>>
           ELSE /\ applications' = RemoveRow(applications, call.id)
                /\ templateApps' = {r \in templateApps : r.applicationId # call.id}
                /\ SetCall(p, [call EXCEPT !.pc = "audit"])
                /\ UNCHANGED <<reply, businessUnits, contacts, nextIds>>
        /\ UNCHANGED <<templates, nextId, history, audit, clock, served, authData, page>>

\* createAuditLog of the application delete, then the reply
DeleteApplicationAudit(p, auditOk) ==
    LET call == calls[p]
    IN  /\ call.pc = "audit" /\ call.op = "deleteApplication"
        /\ audit' = createAuditLog(audit, auditOk,
                        AuditEntry("APPLICATION_DELETED", "Application", call.id)).rows
        /\ SetCall(p, Finished(call, 200))
        /\ reply' = Reply("deleteApplication", 200)
        /\ UNCHANGED <<templates, nextId, templateApps, history, clock, served, masterData,
                       authData, page>>

\* applications are attached to templates while applications are deleted
NextAttachRace ==
    \/ \E body \in CreateBodies :
          RequestBudget(MaxRaceRequests) /\ CreateTemplate(body, TRUE, TRUE)
    \/ \E p \in Clients, id \in PathIds, body \in AddBodies :
          RequestBudget(MaxRaceRequests) /\ AttachFind(p, id, body)
    \/ \E p \in Clients : AttachCreate(p)
    \/ \E p \in Clients : AttachHistory(p, TRUE)
    \/ \E p \in Clients, id \in PathAppIds :
          RequestBudget(MaxRaceRequests) /\ DeleteApplicationFind(p, id)
    \/ \E p \in Clients : DeleteApplicationDelete(p)
    \/ \E p \in Clients : DeleteApplicationAudit(p, TRUE)

SpecAttachRace == Init /\ [][NextAttachRace]_vars

\* POST /contacts up to prisma.contact.updateMany, which runs when the new
\* contact is to be the primary one
ContactCreateUnset(p, body) ==
    LET result == createContactSchema(body)
        call == [pc |-> "create", op |-> "createContact", id |-> 0,
                 data |-> result.data, code |-> 0]
    IN  /\ CanSend(p)
        /\ served' = served + 1
        /\ IF ~result.success
           THEN /\ SetCall(p, Finished(call, 400))
                /\ reply' = Reply("createContact", 400)
                /\ UNCHANGED contacts
           ELSE /\ contacts' = IF result.data.isPrimary
                               THEN UnsetPrimaries(contacts, result.data.businessUnitId)
                               ELSE contacts
                /\ SetCall(p, call)
                /\ UNCHANGED reply
        /\ UNCHANGED <<templates, nextId, templateApps, history, audit, clock,
                       applications, businessUnits, nextIds, authData, page>>

\* prisma.contact.create
ContactCreate(p) ==
    LET call == calls[p]
        id == nextIds.contact
    IN  /\ call.pc = "create" /\ call.op = "createContact"
        /\ IF \/ call.data.businessUnitId \notin DOMAIN businessUnits
              \/ ContactKeyTaken(call.data)
           THEN \* foreign-key or unique-index violation: create throws
                /\ SetCall(p, Finished(call, 500))
                /\ reply' = Reply("createContact", 500)
                /\ UNCHANGED <<contacts, nextIds>>
           ELSE /\ id <= NumContacts + 1
                /\ contacts' = contacts @@ (id :> call.data)
                /\ nextIds' = [nextIds EXCEPT !.contact = @ + 1]
                /\ SetCall(p, [call EXCEPT !.pc = "audit", !.id = id])
                /\ UNCHANGED reply
        /\ UNCHANGED <<templates, nextId, templateApps, history, audit, clock, served,
                       applications, businessUnits, authData, page>>

\* createAuditLog of the contact creation, then the reply
ContactCreateAudit(p, auditOk) ==
    LET call == calls[p]
    IN  /\ call.pc = "audit" /\ call.op = "createContact"
        /\ audit' = createAuditLog(audit, auditOk,
                        AuditEntry("CONTACT_CREATED", "Contact", call.id)).rows
        /\ SetCall(p, Finished(call, 201))
        /\ reply' = Reply("createContact", 201)
        /\ UNCHANGED <<templates, nextId, templateApps, history, clock, served, masterData,
                       authData, page>>

\* updateContactSchema.safeParse: createContactSchema, partial, without
\* businessUnitId
updateContactSchema(body) ==
    LET data == [k \in (DOMAIN body) \cap {"email", "isPrimary"} |-> body[k]]
    IN  [success |-> ("email" \in DOMAIN data => data["email"] >= 1), data |-> data]

\* bodies sent to PUT /contacts/:id
ContactUpdateBodies == { [isPrimary |-> b] : b \in BOOLEAN } \cup { [email |-> 0] }

\* PUT /contacts/:id up to prisma.contact.findUnique
ContactUpdateFind(p, id, body) ==
    LET result == updateContactSchema(body)
        call == [pc |-> "update", op |-> "updateContact", id |-> id,
                 data |-> result.data, businessUnitId |-> 0, code |-> 0]
    IN  /\ CanSend(p)
        /\ served' = served + 1
        /\ IF ~result.success
           THEN SetCall(p, Finished(call, 400)) /\ reply' = Reply("updateContact", 400)
           ELSE IF id \notin DOMAIN contacts
           THEN SetCall(p, Finished(call, 404)) /\ reply' = Reply("updateContact", 404)
           ELSE /\ SetCall(p, [call EXCEPT
                        !.businessUnitId = contacts[id].businessUnitId,
                        !.pc = IF /\ "isPrimary" \in DOMAIN result.data
                                  /\ result.data["isPrimary"]
                                  /\ ~contacts[id].isPrimary
                               THEN "unset" ELSE "update"])
                /\ UNCHANGED reply
        /\ UNCHANGED <<templates, nextId, templateApps, history, audit, clock, masterData,
                       authData, page>>

\* prisma.contact.updateMany of the update: the other primaries of the
\* business unit that findUnique returned are unset
ContactUpdateUnset(p) ==
    LET call == calls[p]
    IN  /\ call.pc = "unset" /\ call.op = "updateContact"
        /\ contacts' = UnsetPrimaries(contacts, call.businessUnitId)
        /\ SetCall(p, [call EXCEPT !.pc = "update"])
        /\ UNCHANGED <<templates, nextId, templateApps, history, audit, clock, reply, served,
                       applications, businessUnits, nextIds, authData, page>>

\* prisma.contact.update
ContactUpdate(p) ==
    LET call == calls[p]
    IN  /\ call.pc = "update" /\ call.op = "updateContact"
        /\ IF call.id \notin DOMAIN contacts
           THEN \* record to update not found: update throws
                /\ SetCall(p, Finished(call, 500))
                /\ reply' = Reply("updateContact", 500)
                /\ UNCHANGED contacts
           ELSE /\ contacts' = [contacts EXCEPT ![call.id] = ApplyData(@, call.data)]
                /\ SetCall(p, [call EXCEPT !.pc = "audit"])
                /\ UNCHANGED reply
        /\ UNCHANGED <<templates, nextId, templateApps, history, audit, clock, served,
                       applications, businessUnits, nextIds, authData, page>>

\* createAuditLog of the contact update, then the reply
ContactUpdateAudit(p, auditOk) ==
    LET call == calls[p]
    IN  /\ call.pc = "audit" /\ call.op = "updateContact"
        /\ audit' = createAuditLog(audit, auditOk,
                        AuditEntry("CONTACT_UPDATED", "Contact", call.id)).rows
        /\ SetCall(p, Finished(call, 200))
        /\ reply' = Reply("updateContact", 200)
        /\ UNCHANGED <<templates, nextId, templateApps, history, clock, served, masterData,
                       authData, page>>

\* contacts are created and updated by two connections at once, and deleted
NextContacts ==
    \/ \E p \in Clients, body \in ContactBodies :
          RequestBudget(MaxRaceRequests) /\ ContactCreateUnset(p, body)
    \/ \E p \in Clients : ContactCreate(p)
    \/ \E p \in Clients : ContactCreateAudit(p, TRUE)
    \/ \E p \in Clients, id \in 1..(NumContacts + 1), body \in ContactUpdateBodies :
          RequestBudget(MaxRaceRequests) /\ ContactUpdateFind(p, id, body)
    \/ \E p \in Clients : ContactUpdateUnset(p)
    \/ \E p \in Clients : ContactUpdate(p)
    \/ \E p \in Clients : ContactUpdateAudit(p, TRUE)
    \/ \E id \in 1..(NumContacts + 1) :
          /\ RequestBudget(MaxRaceRequests)
          /\ \A p \in Clients : CanSend(p)
          /\ DeleteContact(id, TRUE)

SpecContacts == Init /\ [][NextContacts]_vars

(* ---------------------------- authentication --------------------------- *)
\* passwords: the seeded one and another one; 0 is a string too short for
\* the schemas
Passwords == {1, 2}

\* the Authorization headers presented: the tokens login can sign, and 0, a
\* token this server did not sign
Tokens == 0..MaxClock

\* app.jwt.sign: the token is a function of the payload and of the time of
\* signing; there is one admin, so it is the clock reading
sign == clock

\* request.jwtVerify: the token carries this server's signature; the eight
\* hours of expiresIn are longer than the clock readings modelled
jwtVerify(token) == token \in issued

\* the authenticate pre-handler: the JWT verifies and its user exists and is
\* active; the admin is never deactivated
authenticate(token) == jwtVerify(token)

\* a route registered with preHandler: [authenticate]
Authenticated(token, op, Handler) ==
    IF authenticate(token)
    THEN Handler
    ELSE /\ Serve
         /\ reply' = Reply(op, 401)
         /\ UNCHANGED <<templates, nextId, templateApps, history, audit, clock, masterData>>

\* what a handler of authRoutes leaves alone
AuthServe ==
    /\ served' = served + 1
    /\ UNCHANGED <<templates, nextId, templateApps, clock, masterData, calls, page>>

\* POST /auth/login
Login(password) ==
    /\ AuthServe
    /\ UNCHANGED passwordHash
    /\ IF password < 1
       THEN /\ reply' = Reply("login", 400)
            /\ UNCHANGED <<history, audit, sessions, issued>>
       ELSE IF password # passwordHash
       THEN /\ reply' = Reply("login", 401)
            /\ UNCHANGED <<history, audit, sessions, issued>>
       ELSE IF sign \in sessions
       THEN \* unique index sessions_token_key: session.create throws
            /\ reply' = Reply("login", 500)
            /\ UNCHANGED <<history, audit, sessions, issued>>
       ELSE /\ sessions' = sessions \cup {sign}
            /\ issued' = issued \cup {sign}
            /\ AfterLedgers("login", 200, NoWrite(history),
                    createAuditLog(audit, TRUE, AuditEntry("LOGIN", "NULL", 0)))

\* POST /auth/logout, behind authenticate
Logout(token) ==
    /\ AuthServe
    /\ UNCHANGED <<passwordHash, issued>>
    /\ sessions' = sessions \ {token}
    /\ AfterLedgers("logout", 200, NoWrite(history),
            createAuditLog(audit, TRUE, AuditEntry("LOGOUT", "NULL", 0)))

\* changePasswordSchema.safeParse: newPassword has at least eight characters
changePasswordSchema(body) ==
    [success |-> body.currentPassword >= 1 /\ body.newPassword >= 1, data |-> body]

\* bodies sent to PUT /auth/password
PasswordBodies ==
    { [currentPassword |-> c, newPassword |-> n] : c \in Passwords, n \in Passwords \cup {0} }

\* PUT /auth/password, behind authenticate
ChangePassword(token, body) ==
    LET result == changePasswordSchema(body)
    IN  /\ AuthServe
        /\ UNCHANGED issued
        /\ IF ~result.success \/ result.data.currentPassword # passwordHash
           THEN /\ reply' = Reply("password", 400)
                /\ UNCHANGED <<history, audit, sessions, passwordHash>>
           ELSE /\ passwordHash' = result.data.newPassword
                /\ sessions' = {}
                /\ AfterLedgers("password", 200, NoWrite(history),
                        createAuditLog(audit, TRUE, AuditEntry("PASSWORD_CHANGED", "NULL", 0)))

\* the admin logs in and out, changes the password, and sends POST /templates
\* with the tokens received
NextSessions ==
    \/ Tick
    \/ \E password \in Passwords \cup {0} :
          RequestBudget(MaxRequests) /\ Login(password)
    \/ \E token \in Tokens :
          RequestBudget(MaxRequests)
             /\ Authenticated(token, "logout", Logout(token) /\ UNCHANGED calls)
    \/ \E token \in Tokens, body \in PasswordBodies :
          RequestBudget(MaxRequests)
             /\ Authenticated(token, "password", ChangePassword(token, body))
    \/ \E token \in Tokens, body \in CreateBodies :
          RequestBudget(MaxRequests)
             /\ Authenticated(token, "create", CreateTemplate(body, TRUE, TRUE))

SpecSessions == Init /\ [][NextSessions]_vars

(* ------------------------- template detail page ----------------------- *)
\* the connection of the browser that shows the page
Browser == "c1"

\* useQuery(['template', id]): the page shows the template as fetched
OpenPage(id) ==
    /\ id \in DOMAIN templates
    /\ CanSend(Browser)
    /\ page # [id |-> id, status |-> templates[id].status]
    /\ page' = [id |-> id, status |-> templates[id].status]
    /\ UNCHANGED <<templates, nextId, templateApps, history, audit, clock, reply, served,
                   masterData, calls, authData>>

\* variant of allowedStatuses that offers every other status
allowedStatuses_Any(status) == Statuses \ {status}

\* const allowedStatuses = statusTransitions[t.status] || []
allowedStatuses(status) == statusTransitions[status]

\* the items of the status Select: the current status, disabled, then the
\* allowed ones
SelectItems(status) ==
    {[value |-> status, disabled |-> TRUE]}
    \cup {[value |-> s, disabled |-> FALSE] : s \in allowedStatuses(status)}

\* statusMutation.isPending: the request of the page is on its way
isPending == ~CanSend(Browser)

\* the disabled prop of the status Select
SelectDisabled == allowedStatuses(page.status) = {} \/ isPending

\* onValueChange: the admin picks an item that can be picked, and
\* statusMutation.mutate sends PATCH /templates/:id/status
SelectValue(item) ==
    /\ page # NoPage
    /\ ~SelectDisabled
    /\ item \in SelectItems(page.status)
    /\ ~item.disabled
    /\ item.value # page.status
    /\ StatusFind(Browser, page.id, [status |-> item.value])

\* the refetch that invalidateQueries starts has arrived
Refetch ==
    /\ page # NoPage
    /\ page.id \in DOMAIN templates
    /\ page.status # templates[page.id].status
    /\ page' = [page EXCEPT !.status = templates[page.id].status]
    /\ UNCHANGED <<templates, nextId, templateApps, history, audit, clock, reply, served,
                   masterData, calls, authData>>

\* templates are created, and their status is changed only through the status
\* Select of the page
NextSelector ==
    \/ \E body \in CreateBodies :
          RequestBudget(MaxJourney) /\ CreateTemplate(body, TRUE, TRUE)
    \/ \E id \in PathIds : OpenPage(id)
    \/ \E item \in [value : Statuses, disabled : BOOLEAN] :
          RequestBudget(MaxJourney) /\ SelectValue(item)
    \/ StatusUpdate(Browser)
    \/ StatusHistory(Browser, TRUE)
    \/ StatusAudit(Browser, TRUE)
    \/ Refetch

SpecSelector == Init /\ [][NextSelector]_vars

\* the handlers that create and delete applications, business units and
\* contacts
MasterDataRequests(budget, AuditOk) ==
    \/ \E body \in ApplicationBodies, auditOk \in AuditOk :
          RequestBudget(budget) /\ CreateApplication(body, auditOk)
    \/ \E id \in PathAppIds, auditOk \in AuditOk :
          RequestBudget(budget) /\ DeleteApplication(id, auditOk)
    \/ \E body \in BusinessUnitBodies, auditOk \in AuditOk :
          RequestBudget(budget) /\ CreateBusinessUnit(body, auditOk)
    \/ \E id \in 1..(NumBusinessUnits + 1), auditOk \in AuditOk :
          RequestBudget(budget) /\ DeleteBusinessUnit(id, auditOk)
    \/ \E body \in ContactBodies, auditOk \in AuditOk :
          RequestBudget(budget) /\ CreateContact(body, auditOk)
    \/ \E id \in 1..(NumContacts + 1), auditOk \in AuditOk :
          RequestBudget(budget) /\ DeleteContact(id, auditOk)

\* the template handlers, each ledger write committing or failing as given
TemplateRequests(budget, HistOk, AuditOk) ==
    \/ \E body \in CreateBodies, histOk \in HistOk, auditOk \in AuditOk :
          RequestBudget(budget) /\ CreateTemplate(body, histOk, auditOk)
    \/ \E id \in PathIds, body \in UpdateBodies, histOk \in HistOk, auditOk \in AuditOk :
          RequestBudget(budget) /\ UpdateTemplate(id, body, histOk, auditOk)
    \/ \E id \in PathIds, body \in StatusBodies, histOk \in HistOk, auditOk \in AuditOk :
          RequestBudget(budget) /\ UpdateTemplateStatus(id, body, histOk, auditOk)
    \/ \E id \in PathIds, auditOk \in AuditOk :
          RequestBudget(budget) /\ DeleteTemplate(id, auditOk)
    \/ \E id \in PathIds, histOk \in HistOk :
          RequestBudget(budget) /\ DuplicateTemplate(id, histOk)

\* the template-application handlers
ApplicationRequests(budget, HistOk) ==
    \/ \E id \in PathIds, body \in AddBodies, histOk \in HistOk :
          RequestBudget(budget) /\ AddTemplateApplication(id, body, histOk)
    \/ \E id \in PathIds, appId \in PathAppIds, body \in UpdateAppBodies :
          RequestBudget(budget) /\ UpdateTemplateApplication(id, appId, body)
    \/ \E id \in PathIds, appId \in PathAppIds, histOk \in HistOk :
          RequestBudget(budget) /\ RemoveTemplateApplication(id, appId, histOk)
    \/ \E id \in PathIds, body \in ReorderBodies :
          RequestBudget(budget) /\ ReorderApplications(id, body)

\* every route of templatesRoutes, the persistence layer accepting every
\* ledger write
Next ==
    \/ Tick
    \/ TemplateRequests(MaxRequests, {TRUE}, {TRUE})
    \/ ApplicationRequests(MaxRequests, {TRUE})

Spec == Init /\ [][Next]_vars

\* the template lifecycle: the routes that create, change or delete a
\* templates row
NextLifecycle ==
    \/ Tick
    \/ TemplateRequests(MaxRequests, {TRUE}, {TRUE})

SpecLifecycle == Init /\ [][NextLifecycle]_vars

\* ledger writes may fail while the fault budget lasts (model bound)
FaultBudget == served < MaxFaultyRequests

\* the template lifecycle with ledger writes that may fail
NextFaulty ==
    \/ Tick
    \/ \E body \in CreateBodies, histOk \in BOOLEAN, auditOk \in BOOLEAN :
          FaultBudget /\ CreateTemplate(body, histOk, auditOk)
    \/ \E id \in PathIds, body \in UpdateBodies, histOk \in BOOLEAN, auditOk \in BOOLEAN :
          FaultBudget /\ UpdateTemplate(id, body, histOk, auditOk)
    \/ \E id \in PathIds, body \in StatusBodies, histOk \in BOOLEAN, auditOk \in BOOLEAN :
          FaultBudget /\ UpdateTemplateStatus(id, body, histOk, auditOk)
    \/ \E id \in PathIds, auditOk \in BOOLEAN :
          FaultBudget /\ DeleteTemplate(id, auditOk)
    \/ \E id \in PathIds, histOk \in BOOLEAN :
          FaultBudget /\ DuplicateTemplate(id, histOk)

SpecFaulty == Init /\ [][NextFaulty]_vars

\* templates and their attached applications: every route of templatesRoutes
\* within one reading of the clock
NextAttachments ==
    \/ TemplateRequests(MaxAttachRequests, {TRUE}, {TRUE})
    \/ ApplicationRequests(MaxAttachRequests, {TRUE})

SpecAttachments == Init /\ [][NextAttachments]_vars

\* the template lifecycle and the reading of the Change Ledger
NextHistory ==
    \/ Tick
    \/ TemplateRequests(MaxRequests, {TRUE}, {TRUE})
    \/ \E id \in PathIds :
          RequestBudget(MaxRequests) /\ GetTemplateHistory(id)

SpecHistory == Init /\ [][NextHistory]_vars

\* the whole portal within one reading of the clock: templates, their
\* applications, and the master data they refer to
NextPortal ==
    \/ TemplateRequests(MaxAttachRequests, {TRUE}, {TRUE})
    \/ \E body \in ContactTemplateBodies :
          RequestBudget(MaxAttachRequests) /\ CreateTemplate(body, TRUE, TRUE)
    \/ ApplicationRequests(MaxAttachRequests, {TRUE})
    \/ MasterDataRequests(MaxAttachRequests, {TRUE})

SpecPortal == Init /\ [][NextPortal]_vars

\* the master data and what refers to it: templates are created and deleted,
\* applications are attached, and applications, business units and contacts
\* are created and deleted
NextMasterData ==
    \/ \E body \in CreateBodies \cup ContactTemplateBodies :
          RequestBudget(MaxAttachRequests) /\ CreateTemplate(body, TRUE, TRUE)
    \/ \E id \in PathIds :
          RequestBudget(MaxAttachRequests) /\ DeleteTemplate(id, TRUE)
    \/ \E id \in PathIds, body \in AddBodies :
          RequestBudget(MaxAttachRequests) /\ AddTemplateApplication(id, body, TRUE)
    \/ MasterDataRequests(MaxAttachRequests, {TRUE})

SpecMasterData == Init /\ [][NextMasterData]_vars

\* the journey of templates through their statuses: creation and status
\* changes only, long enough for a template to go from DRAFT to DEPRECATED
JourneyBudget == served < MaxJourney

NextJourney ==
    \/ Tick
    \/ \E body \in CreateBodies :
          JourneyBudget /\ CreateTemplate(body, TRUE, TRUE)
    \/ \E id \in PathIds, body \in StatusBodies :
          JourneyBudget /\ UpdateTemplateStatus(id, body, TRUE, TRUE)

SpecJourney == Init /\ [][NextJourney]_vars

(* ======================= properties of the claims ====================== *)
DateColumns == {"approvedDate", "deployedDate", "deprecatedDate"}

\* the date column that belongs to a target status, if any
DateColumnsOf(status) ==
    CASE status = "APPROVED"   -> {"approvedDate"}
      [] status = "DEPLOYED"   -> {"deployedDate"}
      [] status = "DEPRECATED" -> {"deprecatedDate"}
      [] OTHER                 -> {}

\* a step of PATCH /:id/status with a well-formed body on an existing template
StatusStep(id, body) ==
    /\ reply'.op = "status"
    /\ id \in DOMAIN templates
    /\ body["status"] \in Statuses
    /\ \E histOk \in BOOLEAN, auditOk \in BOOLEAN :
          UpdateTemplateStatus(id, body, histOk, auditOk)

ClientError == 400..499

\* C1: a status-change request on an existing template is accepted if and only
\* if (current status, requested status) is in the static transition table.
C1_AcceptsIffInTable ==
    [][\A id \in PathIds, body \in StatusBodies :
          StatusStep(id, body) =>
             (reply'.code = 200
                <=> body["status"] \in statusTransitions[templates[id].status])]_vars

\* C2: a status-change request that asks for the template's current status is
\* rejected with a client error and is not applied.
C2_SameStatusRejected ==
    [][\A id \in PathIds, body \in StatusBodies :
          (StatusStep(id, body) /\ body["status"] = templates[id].status) =>
             (reply'.code \in ClientError /\ templates' = templates)]_vars

\* C3: DEPRECATED is terminal: a template whose status is DEPRECATED still has
\* status DEPRECATED after any step, for as long as it exists.
C3_DeprecatedTerminal ==
    [][\A id \in (DOMAIN templates) \cap (DOMAIN templates') :
          templates[id].status = "DEPRECATED"
             => templates'[id].status = "DEPRECATED"]_vars

\* C4: a status-change request for a pair outside the transition table is
\* rejected, leaves the template's status and dates unchanged and adds no
\* Change Ledger entry.
C4_IllegalTransitionChangesNothing ==
    [][\A id \in PathIds, body \in StatusBodies :
          (StatusStep(id, body)
             /\ body["status"] \notin statusTransitions[templates[id].status]) =>
             (reply'.code # 200 /\ templates' = templates /\ history' = history)]_vars

\* C5: first-approval-date semantics: a template that went APPROVED ->
\* IN_REVIEW (so approvedDate is set) and is approved again keeps the
\* approvedDate of its first approval.
C5_FirstApprovalDateKept ==
    [][\A id \in PathIds :
          (StatusStep(id, [status |-> "APPROVED"])
             /\ templates[id].status = "IN_REVIEW"
             /\ templates[id].approvedDate # NoDate) =>
             templates'[id].approvedDate = templates[id].approvedDate]_vars

\* C6: a successful status change leaves the date column of its target status
\* set (APPROVED: approvedDate, DEPLOYED: deployedDate, DEPRECATED:
\* deprecatedDate) and modifies no other date column of any template; a
\* change to DRAFT or IN_REVIEW modifies no date column.
C6_DateStampPerTarget ==
    [][\A id \in PathIds, body \in StatusBodies :
          (reply'.code = 200 /\ StatusStep(id, body)) =>
             /\ templates'[id].status = body["status"]
             /\ \A c \in DateColumnsOf(body["status"]) : templates'[id][c] # NoDate
             /\ \A c \in DateColumns \ DateColumnsOf(body["status"]) :
                   templates'[id][c] = templates[id][c]
             /\ \A other \in (DOMAIN templates) \ {id} :
                   templates'[other] = templates[other]]_vars

C6_Witness ==
    /\ reply = Reply("status", 200)
    /\ \E id \in DOMAIN templates :
          /\ templates[id].status = "DEPRECATED"
          /\ templates[id].deprecatedDate # NoDate
          /\ templates[id].deployedDate = NoDate

\* C7: lifecycle dates are sticky: a date column that is set is still set
\* after any step (status changes, backward ones included, and field updates),
\* for as long as the template exists.
C7_DatesSticky ==
    [][\A id \in (DOMAIN templates) \cap (DOMAIN templates') :
          \A c \in DateColumns :
             templates[id][c] # NoDate => templates'[id][c] # NoDate]_vars

C7_Witness ==
    /\ reply = Reply("update", 200)
    /\ \E id \in DOMAIN templates :
          /\ templates[id].status = "IN_REVIEW"
          /\ templates[id].approvedDate # NoDate
          /\ \E i \in DOMAIN history :
                /\ history[i].templateId = id
                /\ history[i].action = "STATUS_CHANGED"
                /\ history[i].oldStatus = "APPROVED"
                /\ history[i].newStatus = "IN_REVIEW"

\* C8: in every reachable state deployedDate is set only if approvedDate is
\* set, and deprecatedDate is set only if deployedDate is set.
C8_DatesMonotone ==
    \A id \in DOMAIN templates :
       /\ templates[id].deployedDate # NoDate => templates[id].approvedDate # NoDate
       /\ templates[id].deprecatedDate # NoDate => templates[id].deployedDate # NoDate

\* C9: a template is in status DRAFT with approvedDate, deployedDate and
\* deprecatedDate unset immediately after it is created, by create or by
\* duplicate, whatever the body carries and whatever the source's status.
C9_CreatedInDraft ==
    [][\A id \in (DOMAIN templates') \ (DOMAIN templates) :
          /\ templates'[id].status = "DRAFT"
          /\ \A c \in DateColumns : templates'[id][c] = NoDate]_vars

C9_Witness ==
    /\ reply = Reply("duplicate", 201)
    /\ \E src \in DOMAIN templates, new \in DOMAIN templates :
          /\ src < new
          /\ templates[src].status = "DEPLOYED"
          /\ templates[src].deployedDate # NoDate
          /\ templates[new].status = "DRAFT"
          /\ templates[new].deployedDate = NoDate

\* C10: when the insert of createTemplateHistory or createAuditLog fails, the
\* triggering operation still answers with its success code and its entity
\* mutation stays committed.
C10_LedgerBestEffort ==
    [][/\ \A id \in PathIds, body \in StatusBodies,
             histOk \in BOOLEAN, auditOk \in BOOLEAN :
             ( /\ reply'.op = "status"
               /\ id \in DOMAIN templates
               /\ body["status"] \in Statuses
               /\ ~(histOk /\ auditOk)
               /\ UpdateTemplateStatus(id, body, histOk, auditOk) ) =>
                /\ reply' = Reply("status", 200)
                /\ templates'[id].status = body["status"]
                /\ ~histOk => history' = history
                /\ ~auditOk => audit' = audit
       /\ \A body \in CreateBodies, histOk \in BOOLEAN, auditOk \in BOOLEAN :
             ( /\ reply'.op = "create"
               /\ createTemplateSchema(body).success
               /\ ~(histOk /\ auditOk)
               /\ CreateTemplate(body, histOk, auditOk) ) =>
                /\ reply' = Reply("create", 201)
                /\ nextId \in DOMAIN templates']_vars

C10_Witness ==
    /\ reply = Reply("status", 200)
    /\ \E id \in DOMAIN templates :
          /\ templates[id].status = "APPROVED"
          /\ templates[id].approvedDate # NoDate
          /\ \A i \in DOMAIN history :
                ~(history[i].templateId = id /\ history[i].action = "STATUS_CHANGED")
          /\ \A i \in DOMAIN audit :
                ~(audit[i].entityId = id /\ audit[i].action = "TEMPLATE_STATUS_CHANGED")

\* C11: with ledger writes that succeed, a successful creation appends exactly
\* one CREATED entry for the new template, and a successful status change
\* appends exactly one STATUS_CHANGED entry, for the template it changed,
\* whose oldStatus is the status before the change and whose newStatus is the
\* status after it; the entries already in the ledger stay as they are.
C11_OneEntryPerChange ==
    [][LET last == history'[Len(history')]
       IN  /\ (served' # served /\ reply' = Reply("create", 201)) =>
                 /\ history' = Append(history, last)
                 /\ last.templateId = nextId
                 /\ last.action = "CREATED"
           /\ (served' # served /\ reply' = Reply("status", 200)) =>
                 /\ history' = Append(history, last)
                 /\ last.action = "STATUS_CHANGED"
                 /\ last.templateId \in DOMAIN templates
                 /\ last.oldStatus = templates[last.templateId].status
                 /\ last.newStatus = templates'[last.templateId].status
                 /\ \A other \in (DOMAIN templates) \ {last.templateId} :
                       templates'[other] = templates[other]]_vars

\* a template that went DRAFT -> IN_REVIEW -> APPROVED -> DEPLOYED ->
\* DEPRECATED has exactly 5 entries: CREATED and the four status changes
C11_Witness ==
    \E id \in DOMAIN templates :
       LET e == EntriesOf(history, id)
       IN  /\ templates[id].status = "DEPRECATED"
           /\ Len(e) = 5
           /\ e[1].action = "CREATED"
           /\ \A i \in 2..5 : e[i].action = "STATUS_CHANGED"
           /\ <<e[2].oldStatus, e[2].newStatus>> = <<"DRAFT", "IN_REVIEW">>
           /\ <<e[3].oldStatus, e[3].newStatus>> = <<"IN_REVIEW", "APPROVED">>
           /\ <<e[4].oldStatus, e[4].newStatus>> = <<"APPROVED", "DEPLOYED">>
           /\ <<e[5].oldStatus, e[5].newStatus>> = <<"DEPLOYED", "DEPRECATED">>

\* C12: Change Ledger entries are immutable and append-only: every step
\* leaves the entries already in the ledger in place and unchanged, and may
\* only add entries after them.
C12_LedgerAppendOnly ==
    [][/\ Len(history') >= Len(history)
       /\ SubSeq(history', 1, Len(history)) = history]_vars

\* C13 as stated: in every Change Ledger entry oldStatus and newStatus are
\* populated only when the action is STATUS_CHANGED.
C13_StatusOnlyOnStatusChanged ==
    \A i \in DOMAIN history :
       history[i].action # "STATUS_CHANGED" =>
          (history[i].oldStatus = NoStatus /\ history[i].newStatus = NoStatus)

\* C13 as amended: oldStatus is populated only when the action is
\* STATUS_CHANGED; newStatus is populated only when the action is
\* STATUS_CHANGED or CREATED, and for CREATED it is the initial status DRAFT;
\* entries with action UPDATED, APP_ADDED or APP_REMOVED have both unset.
C13_StatusFieldsByAction ==
    \A i \in DOMAIN history :
       /\ history[i].action \in
             {"CREATED", "UPDATED", "STATUS_CHANGED", "APP_ADDED", "APP_REMOVED"}
       /\ history[i].oldStatus # NoStatus => history[i].action = "STATUS_CHANGED"
       /\ history[i].newStatus # NoStatus =>
             history[i].action \in {"STATUS_CHANGED", "CREATED"}
       /\ history[i].action = "CREATED" => history[i].newStatus = "DRAFT"

\* the ledger holds a CREATED, an APP_ADDED and an APP_REMOVED entry
C13_Witness ==
    /\ reply = Reply("removeApp", 200)
    /\ \A a \in {"CREATED", "APP_ADDED", "APP_REMOVED"} :
          \E i \in DOMAIN history : history[i].action = a

\* the rows of template_applications that join one template and one application
RowsOfPair(rows, id, appId) ==
    {r \in rows : r.templateId = id /\ r.applicationId = appId}

\* a step of POST /:id/applications with a well-formed body that names an
\* existing template and an existing application
AttachStep(id, body) ==
    /\ id \in DOMAIN templates
    /\ body["applicationId"] \in DOMAIN applications
    /\ addTemplateApplicationSchema(body).success
    /\ AddTemplateApplication(id, body, TRUE)

\* C14: attaching application A to template T when no (T, A) row exists
\* answers 201 and creates the row; attaching A to T when the row exists
\* answers 409 and creates nothing; and after every step there is at most one
\* TemplateApplication row per (templateId, applicationId) pair.
C14_AttachOnce ==
    [][/\ (served' # served /\ reply'.op = "addApp") =>
          \A id \in PathIds, body \in AddBodies :
             AttachStep(id, body) =>
                IF RowsOfPair(templateApps, id, body["applicationId"]) = {}
                THEN /\ reply'.code = 201
                     /\ Cardinality(RowsOfPair(templateApps', id, body["applicationId"])) = 1
                     /\ templateApps \subseteq templateApps'
                     /\ Cardinality(templateApps') = Cardinality(templateApps) + 1
                ELSE /\ reply'.code = 409
                     /\ templateApps' = templateApps
                     /\ history' = history
       /\ templateApps' # templateApps =>
          \A r1 \in templateApps', r2 \in templateApps' :
             (r1.templateId = r2.templateId /\ r1.applicationId = r2.applicationId)
                => r1 = r2]_vars

\* the second attach of the same application was answered 409 and one row
\* joins the pair
C14_Witness ==
    /\ reply = Reply("addApp", 409)
    /\ \E id \in DOMAIN templates, a \in AppIds :
          /\ Cardinality(RowsOfPair(templateApps, id, a)) = 1
          /\ Cardinality({i \in DOMAIN history :
                 history[i].templateId = id /\ history[i].action = "APP_ADDED"}) = 1

\* the installOrder an array of reorder items asks for an application: the one
\* of its last item
RequestedOrder(items, appId) ==
    LET last == CHOOSE i \in DOMAIN items :
                    /\ items[i].applicationId = appId
                    /\ \A j \in DOMAIN items : items[j].applicationId = appId => j <= i
    IN  items[last].installOrder

\* an item of a reorder request whose update cannot be made: it is malformed,
\* or it names an application that is not attached to the template
FailingItem(id, item) ==
    \/ item.installOrder < 0
    \/ RowsOfPair(templateApps, id, item.applicationId) = {}

\* C15: reordering a template's applications is all-or-nothing: a reorder
\* request that is not answered with success changes no installOrder (no row
\* of template_applications at all); a request with an item whose update
\* fails is never answered with success; and after a request answered with
\* success every listed application has the installOrder requested for it
\* and every other row is unchanged.
C15_ReorderAllOrNothing ==
    [][(served' # served /\ reply'.op = "reorder") =>
          IF reply'.code # 200
          THEN templateApps' = templateApps
          ELSE \A id \in PathIds, body \in ReorderBodies :
                  ReorderApplications(id, body) =>
                     /\ \A i \in DOMAIN body : ~FailingItem(id, body[i])
                     /\ \A i \in DOMAIN body :
                           \E r \in RowsOfPair(templateApps', id, body[i].applicationId) :
                              r.installOrder = RequestedOrder(body, body[i].applicationId)
                     /\ \A r \in templateApps :
                           (r.templateId # id
                              \/ \A i \in DOMAIN body : body[i].applicationId # r.applicationId)
                              => r \in templateApps'
                     /\ Cardinality(templateApps') = Cardinality(templateApps)]_vars

\* a reorder of a template with an attached application was refused because
\* an update failed, and the attached application still has its installOrder
C15_Witness ==
    /\ reply = Reply("reorder", 500)
    /\ \E r \in templateApps : r.installOrder = 1

\* C16: installOrder is unique per template: in every reachable state no two
\* TemplateApplication rows of the same template have the same installOrder.
C16_InstallOrderUnique ==
    \A r1 \in templateApps, r2 \in templateApps :
       (r1.templateId = r2.templateId /\ r1.installOrder = r2.installOrder)
          => r1 = r2

\* the number of positions of a sequence that hold a given row
Occurrences(seq, row) == Cardinality({i \in DOMAIN seq : seq[i] = row})

\* C17 as stated: listing a template's history returns exactly the Change
\* Ledger entries of that template, each entry strictly newer than the one
\* after it.
C17_HistoryStrictlyNewestFirst ==
    [][(served' # served /\ reply'.op = "history") =>
          \A id \in PathIds :
             GetTemplateHistory(id) =>
                /\ Len(reply'.data) = Len(EntriesOf(history, id))
                /\ \A i \in DOMAIN reply'.data :
                      Occurrences(reply'.data, reply'.data[i])
                         = Occurrences(EntriesOf(history, id), reply'.data[i])
                /\ \A i \in 1..(Len(reply'.data) - 1) :
                      reply'.data[i].createdAt > reply'.data[i + 1].createdAt]_vars

\* C17 as amended: listing a template's history returns exactly the Change
\* Ledger entries of that template, sorted by creation time descending: each
\* entry is at least as new as the one after it.
C17_HistoryNewestFirst ==
    [][(served' # served /\ reply'.op = "history") =>
          \A id \in PathIds :
             GetTemplateHistory(id) =>
                /\ reply'.code = 200
                /\ Len(reply'.data) = Len(EntriesOf(history, id))
                /\ \A i \in DOMAIN reply'.data :
                      Occurrences(reply'.data, reply'.data[i])
                         = Occurrences(EntriesOf(history, id), reply'.data[i])
                /\ \A i \in 1..(Len(reply'.data) - 1) :
                      reply'.data[i].createdAt >= reply'.data[i + 1].createdAt]_vars

\* a listing of the two entries of one template, made at two readings of the
\* clock, while the ledger also holds an entry of another template
C17_Witness ==
    /\ reply.op = "history"
    /\ Len(reply.data) = 2
    /\ reply.data[1].createdAt > reply.data[2].createdAt
    /\ Len(history) = 3

\* C18: for every template, primaryRegion is an element of regions after any
\* successful create or update.
C18_PrimaryRegionInRegions ==
    \A id \in DOMAIN templates :
       templates[id].primaryRegion \in templates[id].regions

\* C19: every successful mutating request (create, update, status change,
\* delete and duplicate of a template, attach, update, detach and reorder of
\* a template's applications, create and delete of an application, business
\* unit or contact) appends exactly one Global Audit Log entry naming the
\* acting admin, when audit writes do not fail.
C19_EveryMutationAudited ==
    [][(/\ served' # served
        /\ reply'.code \in {200, 201}
        /\ <<templates, templateApps, masterData>>' # <<templates, templateApps, masterData>>) =>
          /\ Len(audit') = Len(audit) + 1
          /\ SubSeq(audit', 1, Len(audit)) = audit
          /\ audit'[Len(audit')].adminId = Admin]_vars

\* the requests that delete a template, an application, a business unit or a
\* contact
DeleteOps == {"delete", "deleteApplication", "deleteBusinessUnit", "deleteContact"}

\* C20: audit entries survive the deletion of what they describe: a request
\* that deletes a template, an application, a business unit or a contact
\* leaves every Global Audit Log entry that existed before it in place and
\* unchanged, the entries about the deleted entity included.
C20_AuditSurvivesDeletion ==
    [][(served' # served /\ reply'.op \in DeleteOps /\ reply'.code = 200) =>
          /\ Len(audit') >= Len(audit)
          /\ SubSeq(audit', 1, Len(audit)) = audit]_vars

\* a template was deleted and the entry of its creation is still in the log,
\* next to the entry of its deletion
C20_Witness ==
    /\ reply = Reply("delete", 200)
    /\ \E i \in DOMAIN audit, j \in DOMAIN audit :
          /\ i < j
          /\ audit[i].action = "TEMPLATE_CREATED"
          /\ audit[j].action = "TEMPLATE_DELETED"
          /\ audit[i].entityId = audit[j].entityId
          /\ audit[i].entityId \notin DOMAIN templates

\* a POST /contacts request whose create statement is refused by the unique
\* index on (email, businessUnitId)
DuplicateKeyStep ==
    /\ reply' = Reply("createContact", 500)
    /\ \E body \in ContactBodies :
          /\ createContactSchema(body).success
          /\ createContactSchema(body).data.businessUnitId \in DOMAIN businessUnits
          /\ ContactKeyTaken(createContactSchema(body).data)
          /\ CreateContact(body, TRUE)

\* C21: errors short-circuit: a request that ends in a validation (400),
\* not-found (404) or conflict (409) error, or that fails on a duplicate
\* unique key, has changed no entity row and has written neither a Change
\* Ledger entry nor a Global Audit Log entry.
C21_ErrorsShortCircuit ==
    [][(served' # served /\ (reply'.code \in {400, 404, 409} \/ DuplicateKeyStep)) =>
          UNCHANGED <<templates, nextId, templateApps, history, audit, masterData>>]_vars

\* a well-formed template-scoped request addressed to template id, which
\* does not exist: update, status change, delete, duplicate, attach, reorder
MissingTemplateStep(id) ==
    /\ id \notin DOMAIN templates
    /\ \/ \E body \in UpdateBodies, histOk \in BOOLEAN, auditOk \in BOOLEAN :
             updateTemplateSchema(body).success /\ UpdateTemplate(id, body, histOk, auditOk)
       \/ \E body \in StatusBodies, histOk \in BOOLEAN, auditOk \in BOOLEAN :
             updateTemplateStatusSchema(body).success
                /\ UpdateTemplateStatus(id, body, histOk, auditOk)
       \/ \E auditOk \in BOOLEAN : DeleteTemplate(id, auditOk)
       \/ \E histOk \in BOOLEAN : DuplicateTemplate(id, histOk)
       \/ \E body \in AddBodies, histOk \in BOOLEAN :
             addTemplateApplicationSchema(body).success
                /\ AddTemplateApplication(id, body, histOk)
       \/ \E body \in ReorderBodies :
             reorderApplicationsSchema(body).success /\ ReorderApplications(id, body)

\* a well-formed request addressed to the pair (id, appId), which is not a
\* row of template_applications: update, detach, reorder
MissingPairStep(id, appId) ==
    /\ TemplateAppRows(templateApps, id, appId) = {}
    /\ \/ \E body \in UpdateAppBodies :
             updateTemplateApplicationSchema(body).success
                /\ UpdateTemplateApplication(id, appId, body)
       \/ \E histOk \in BOOLEAN : RemoveTemplateApplication(id, appId, histOk)
       \/ \E body \in ReorderBodies :
             /\ reorderApplicationsSchema(body).success
             /\ \E i \in DOMAIN body : body[i].applicationId = appId
             /\ ReorderApplications(id, body)

\* C22: not-found targets map to 404: a well-formed template-scoped request
\* addressed to a template id, or to a (template, application) pair, that does
\* not exist is answered 404 and changes nothing.
C22_NotFoundIs404 ==
    [][(/\ served' # served
        /\ \E id \in PathIds :
              \/ MissingTemplateStep(id)
              \/ \E appId \in PathAppIds : MissingPairStep(id, appId)) =>
          /\ reply'.code = 404
          /\ UNCHANGED <<templates, nextId, templateApps, history, audit, masterData>>]_vars

\* the outcome the claim requires of a delete request for an entity that
\* exists: blocked with a conflict and nothing changed when a template
\* refers to it, answered 200 and the entity gone when none does
DeleteOutcome(referenced, table, id) ==
    /\ referenced =>
          /\ reply'.code = 409
          /\ UNCHANGED <<templates, nextId, templateApps, history, audit, masterData>>
    /\ (id \in DOMAIN table /\ ~referenced) => reply'.code = 200

\* C23: deletion is blocked by references: a delete request for an
\* application, business unit or contact that at least one template refers
\* to is answered with a conflict and leaves the entity and every row
\* referring to it unchanged; with no referring template the delete succeeds
\* and the entity is gone.
C23_DeleteBlockedByReferences ==
    [][(served' # served /\ reply'.op \in DeleteOps \ {"delete"}) =>
          /\ \A id \in PathAppIds :
                (\E auditOk \in BOOLEAN : DeleteApplication(id, auditOk)) =>
                   /\ DeleteOutcome(\E r \in templateApps : r.applicationId = id,
                                    applications, id)
                   /\ reply'.code = 200 => id \notin DOMAIN applications'
          /\ \A id \in 1..(NumBusinessUnits + 1) :
                (\E auditOk \in BOOLEAN : DeleteBusinessUnit(id, auditOk)) =>
                   /\ DeleteOutcome(\E t \in DOMAIN templates :
                                       templates[t].businessUnitId = id,
                                    businessUnits, id)
                   /\ reply'.code = 200 => id \notin DOMAIN businessUnits'
          /\ \A id \in 1..(NumContacts + 1) :
                (\E auditOk \in BOOLEAN : DeleteContact(id, auditOk)) =>
                   /\ DeleteOutcome(\E t \in DOMAIN templates :
                                       templates[t].contactId = id,
                                    contacts, id)
                   /\ reply'.code = 200 => id \notin DOMAIN contacts']_vars

\* an application attached to a template was asked to be deleted and the
\* request was refused: the application and its attachment are still there
C23_Witness ==
    /\ reply = Reply("deleteApplication", 409)
    /\ \E r \in templateApps :
          r.applicationId \in DOMAIN applications /\ r.templateId \in DOMAIN templates

\* connection p executes the update statement of its status-change request
UpdateStatement(p) ==
    /\ calls[p].pc = "update" /\ calls[p].op = "status"
    /\ calls'[p] # calls[p]

\* C24: last write wins: a status-change request that found its template is
\* never rejected because of another one in flight: its update statement
\* writes the requested status whatever the status has become since it was
\* read, and the request is answered 200; the status of a template changes
\* in no other statement, so the final status is that of the update executed
\* last.
C24_LastWriteWins ==
    [][/\ \A p \in Clients :
             (UpdateStatement(p) /\ calls[p].id \in DOMAIN templates) =>
                /\ calls'[p].pc = "history"
                /\ templates'[calls[p].id].status = calls[p].status
       /\ \A t \in DOMAIN templates :
             templates'[t].status # templates[t].status =>
                \E p \in Clients : UpdateStatement(p) /\ calls[p].id = t
       /\ \A p \in Clients :
             (/\ calls'[p].pc = "done" /\ calls'[p].op = "status"
              /\ calls'[p].existing # NoStatus) => calls'[p].code = 200]_vars

\* two status changes of one template ran at once: both read DRAFT, both
\* were answered 200, and the template carries the status written last
C24_Witness ==
    /\ \A p \in Clients :
          /\ calls[p].pc = "done" /\ calls[p].op = "status"
          /\ calls[p].code = 200 /\ calls[p].existing = "DRAFT"
          /\ calls[p].id = calls["c1"].id
    /\ calls["c1"].status = "IN_REVIEW"
    /\ calls["c2"].status = "APPROVED"
    /\ calls["c1"].id \in DOMAIN templates
    /\ templates[calls["c1"].id].status = "IN_REVIEW"
    /\ Len(history) = 3
    /\ history[3].newStatus = "APPROVED"

\* the row a step appends to a table kept in insertion order
Appended(before, after) == after[Len(after)]

\* C25: the steps of one operation are ordered and not atomic: a request
\* reaches its Change Ledger write only through the statement that commits
\* its entity mutation, and its Global Audit Log write only after the ledger
\* write; each of the three is a step of its own, and a ledger entry is only
\* ever appended by a request whose mutation is committed.  (That a committed
\* mutation may lack its entry is the state of C25_Witness.)
C25_MutationThenLedgerThenAudit ==
    [][/\ \A p \in Clients :
             (calls'[p].pc = "history" /\ calls[p].pc # "history") =>
                /\ calls[p].pc = "update"
                /\ templates'[calls'[p].id].status = calls'[p].status
                /\ UNCHANGED <<history, audit>>
       /\ history' # history =>
             /\ history' = Append(history, Appended(history, history'))
             /\ Appended(history, history').templateId \in DOMAIN templates'
             /\ Appended(history, history').action = "STATUS_CHANGED" =>
                   /\ UNCHANGED <<templates, audit>>
                   /\ \E p \in Clients :
                         /\ calls[p].pc = "history" /\ calls'[p].pc = "audit"
                         /\ calls[p].id = Appended(history, history').templateId
                         /\ calls[p].status = Appended(history, history').newStatus
       /\ (audit' # audit /\ Appended(audit, audit').action = "TEMPLATE_STATUS_CHANGED") =>
             /\ audit' = Append(audit, Appended(audit, audit'))
             /\ UNCHANGED <<templates, history>>
             /\ \E p \in Clients :
                   /\ calls[p].pc = "audit" /\ calls'[p].pc = "done"
                   /\ calls[p].id = Appended(audit, audit').entityId]_vars

\* the server stopped between the update and the ledger write of a status
\* change: the template is APPROVED and its ledger holds only its creation
C25_Witness ==
    /\ \A p \in Clients : calls[p] = Idle
    /\ 1 \in DOMAIN templates
    /\ templates[1].status = "APPROVED"
    /\ Len(history) = 1
    /\ history[1].action = "CREATED"
    /\ Len(audit) = 1

\* the Change Ledger entries of template id that carry a status, oldest first
StatusEntries(id) ==
    SelectSeq(EntriesOf(history, id),
              LAMBDA r : r.action \in {"CREATED", "STATUS_CHANGED"})

\* C26: the Change Ledger of a template is a consistent status chain: once no
\* request is in flight, each STATUS_CHANGED entry's oldStatus is the
\* newStatus of the status-bearing entry before it, and the newest entry's
\* newStatus is the template's current status.
C26_StatusChain ==
    (\A p \in Clients : CanSend(p)) =>
        \A id \in DOMAIN templates :
            LET es == StatusEntries(id)
            IN  /\ \A i \in 2..Len(es) :
                      es[i].action = "STATUS_CHANGED" =>
                         es[i].oldStatus = es[i - 1].newStatus
                /\ Len(es) > 0 => es[Len(es)].newStatus = templates[id].status

\* C27: an application attached to at least one template is never deleted,
\* and no template_applications row disappears when an application is
\* deleted.
C27_AttachedApplicationKept ==
    [][applications' # applications =>
          /\ \A r \in templateApps : r.applicationId \in DOMAIN applications'
          /\ templateApps \subseteq templateApps']_vars

\* C28: each business unit has at most one primary contact.
C28_OnePrimaryPerBusinessUnit ==
    \A c \in DOMAIN contacts, d \in DOMAIN contacts :
        (/\ contacts[c].isPrimary /\ contacts[d].isPrimary
         /\ contacts[c].businessUnitId = contacts[d].businessUnitId) => c = d

\* C29: session invalidation is effective: a request presenting a token
\* that login issued and whose session row has since been deleted, by a
\* logout or by a password change, is rejected by authenticate with 401 and
\* changes nothing.
C29_InvalidatedTokenRejected ==
    [][(served' # served /\ reply'.op = "create") =>
          \A token \in issued \ sessions :
             (\E body \in CreateBodies :
                 Authenticated(token, "create", CreateTemplate(body, TRUE, TRUE))) =>
                /\ reply'.code = 401
                /\ UNCHANGED <<templates, nextId, templateApps, history, audit, masterData>>]_vars

\* the browser sends the status change picked in the Select
IssueStep == CanSend(Browser) /\ calls'[Browser].pc = "update"

\* C30: the status Select offers exactly the statuses the transition table
\* allows from the displayed status, the displayed status being a disabled
\* item, and is disabled when nothing is allowed (DEPRECATED) or a change is
\* pending; a change issued through it against an up-to-date view asks for a
\* status the table allows from the template's status, and the change carried
\* out is the one issued.
C30_SelectorFollowsTable ==
    [][/\ page' # NoPage =>
             /\ {i.value : i \in {j \in SelectItems(page'.status) : ~j.disabled}}
                   = statusTransitions[page'.status]
             /\ [value |-> page'.status, disabled |-> TRUE] \in SelectItems(page'.status)
             /\ [value |-> page'.status, disabled |-> FALSE] \notin SelectItems(page'.status)
             /\ page'.status = "DEPRECATED" => SelectDisabled'
             /\ isPending' => SelectDisabled'
       /\ IssueStep =>
             /\ ~SelectDisabled
             /\ page.status = templates[page.id].status =>
                   calls'[Browser].status \in statusTransitions[templates[page.id].status]
       /\ \A t \in DOMAIN templates :
             templates'[t].status # templates[t].status =>
                /\ UpdateStatement(Browser)
                /\ calls[Browser].id = t
                /\ templates[t].status = calls[Browser].existing
                /\ templates'[t].status = calls[Browser].status]_vars

\* a template was taken from DRAFT to DEPRECATED through the Select alone;
\* the page shows DEPRECATED and its Select is disabled
C30_Witness ==
    /\ page # NoPage
    /\ page.status = "DEPRECATED"
    /\ SelectDisabled
    /\ ~isPending
    /\ templates[page.id].status = "DEPRECATED"
    /\ Len(EntriesOf(history, page.id)) = 5

====
